---- MODULE Spec2Model ----
(***************************************************************************)
(* Dispatch system: the trips table with its triggers (db_schema.md), the  *)
(* dispatcher dashboard (app/dashboard/page.tsx) and the statements the    *)
(* store receives from them.                                               *)
(*                                                                         *)
(* Representation.  A nullable column holds Null (the empty sequence) or   *)
(* Some(v) (a one-element sequence).  agreed_fare and the verified amounts *)
(* are whole currency units; platform_commission is held in units of       *)
(* 1/RateDen of a currency unit, so that agreed_fare * 0.12 is the exact   *)
(* numeric product agreed_fare * RateNum, as PostgreSQL numeric computes.  *)
(* A dashboard's copy of platform_commission is a JavaScript number.       *)
(* A statement a dashboard has sent and whose answer it still awaits is a  *)
(* call in flight; the store executes it and the handler's continuation    *)
(* runs in one step (the continuation reads nothing but the answer and     *)
(* the dashboard's own state).                                             *)
(***************************************************************************)
EXTENDS Integers, Sequences, FiniteSets, TLC

\* ---------------------------------------------------------------- bounds
MaxTrips == 1
MaxRows == 2
MaxAudit == 3
MaxLen == 3

\* ------------------------------------------------------------- constants
RateNum == 12
RateDen == 100

Dashboards == {"A", "B"}
Drivers == {"d1", "d2"}

Null == <<>>
Some(v) == <<v>>
Val(o) == o[1]

STATUSES == <<"Pending", "Confirmed", "In Progress", "Completed">>
TripStatus == {STATUSES[i] : i \in 1..Len(STATUSES)}
Rank(s) == CHOOSE i \in 1..Len(STATUSES) : STATUSES[i] = s

\* ADVANCE_CONFIG: the statuses that have an advance button, and its target
ADVANCE_CONFIG == [Confirmed |-> "In Progress", In_Progress |-> "Completed"]
AdvanceKey(s) == IF s = "In Progress" THEN "In_Progress" ELSE s
HasAdvanceCfg(s) == AdvanceKey(s) \in DOMAIN ADVANCE_CONFIG
AdvanceNext(s) == ADVANCE_CONFIG[AdvanceKey(s)]

\* --------------------------------------------------------------- parsing
\* The fare field's text, as characters; parseFloat reads an optional sign
\* and the leading decimal digits and yields NaN when there are none.
Digits == <<"0", "1", "2", "3", "4", "5", "6", "7", "8", "9">>
IsDigit(c) == \E i \in 1..Len(Digits) : Digits[i] = c
DigitVal(c) == (CHOOSE i \in 1..Len(Digits) : Digits[i] = c) - 1
NaN == <<>>
isNaN(x) == x = NaN

RECURSIVE ParseDigits(_, _, _)
ParseDigits(s, i, acc) ==
    IF i > Len(s) \/ ~IsDigit(s[i])
    THEN acc
    ELSE ParseDigits(s, i + 1, acc * 10 + DigitVal(s[i]))

parseFloat(s) ==
    LET neg == Len(s) >= 1 /\ s[1] = "-"
        start == IF neg \/ (Len(s) >= 1 /\ s[1] = "+") THEN 2 ELSE 1
    IN  IF start > Len(s) \/ ~IsDigit(s[start])
        THEN NaN
        ELSE IF neg THEN Some(0 - ParseDigits(s, start, 0))
                    ELSE Some(ParseDigits(s, start, 0))

\* ------------------------------------------------------ JavaScript numbers
\* A JavaScript number is an IEEE 754 double: a sign, an exponent and a
\* significand of 53 bits whose first bit is 1, held here as four limbs of
\* 11, 14, 14 and 14 bits; zero has no limbs.  A decimal the store sends is
\* read as the double nearest to it, and a product is the exact product
\* rounded to the nearest double, ties to the even significand.
Limb == 16384
TopLimb == 1024
ExponentRange == 6

RECURSIVE Pow2(_)
Pow2(k) == IF k = 0 THEN 1 ELSE 2 * Pow2(k - 1)

Cmp(a, b) == IF a > b THEN 1 ELSE IF a = b THEN 0 ELSE 0 - 1

JsZero == [neg |-> FALSE, exp |-> 0, limbs |-> << >>]

\* round to nearest, ties to even: half compares what was cut off with half
\* a unit in the last place
RoundToNearest(sign, expo, m, half) ==
    LET up == half > 0 \/ (half = 0 /\ m[4] % 2 = 1)
        s4 == m[4] + 1
        s3 == m[3] + (s4 \div Limb)
        s2 == m[2] + (s3 \div Limb)
        s1 == m[1] + (s2 \div Limb)
    IN  IF ~up
        THEN [neg |-> sign, exp |-> expo, limbs |-> m]
        ELSE IF s1 = 2 * TopLimb
             THEN [neg |-> sign, exp |-> expo + 1, limbs |-> <<TopLimb, 0, 0, 0>>]
             ELSE [neg |-> sign, exp |-> expo,
                   limbs |-> <<s1, s2 % Limb, s3 % Limb, s4 % Limb>>]

\* the double nearest to num / den (num >= 0, den > 0): JSON.parse of a
\* decimal, and the value of a decimal literal
ToDouble(num, den) ==
    IF num = 0
    THEN JsZero
    ELSE LET e == CHOOSE x \in (0 - ExponentRange)..ExponentRange :
                    IF x >= 0
                    THEN den * Pow2(x) <= num /\ num < den * Pow2(x + 1)
                    ELSE den <= num * Pow2(0 - x) /\ num * Pow2(0 - x) < 2 * den
             n0 == IF e >= 0 THEN num ELSE num * Pow2(0 - e)
             d0 == IF e >= 0 THEN den * Pow2(e) ELSE den
             q1 == (n0 * TopLimb) \div d0
             r1 == (n0 * TopLimb) % d0
             q2 == (r1 * Limb) \div d0
             r2 == (r1 * Limb) % d0
             q3 == (r2 * Limb) \div d0
             r3 == (r2 * Limb) % d0
             q4 == (r3 * Limb) \div d0
             r4 == (r3 * Limb) % d0
         IN  RoundToNearest(FALSE, e, <<q1, q2, q3, q4>>, Cmp(2 * r4, d0))

\* the literal 0.12
Literal012 == ToDouble(RateNum, RateDen)

\* n * x for a whole number n and a double x: the exact product, rounded
JsTimes(n, x) ==
    IF n = 0 \/ x.limbs = << >>
    THEN JsZero
    ELSE LET mag == IF n < 0 THEN 0 - n ELSE n
             v4 == x.limbs[4] * mag
             v3 == x.limbs[3] * mag + (v4 \div Limb)
             v2 == x.limbs[2] * mag + (v3 \div Limb)
             v1 == x.limbs[1] * mag + (v2 \div Limb)
             extra == CHOOSE s \in 0..14 :
                        TopLimb * Pow2(s) <= v1 /\ v1 < 2 * TopLimb * Pow2(s)
             cut == Pow2(extra)
             w2 == (v1 % cut) * Limb + (v2 % Limb)
             w3 == (w2 % cut) * Limb + (v3 % Limb)
             w4 == (w3 % cut) * Limb + (v4 % Limb)
         IN  RoundToNearest((n < 0) # x.neg, x.exp + extra,
                            <<v1 \div cut, w2 \div cut, w3 \div cut, w4 \div cut>>,
                            IF extra = 0 THEN 0 - 1 ELSE Cmp(2 * (w4 % cut), cut))

\* platform_commission as a dashboard receives it: the numeric column, held
\* here in units of 1 / RateDen, read as a double
CommissionNumber(c) ==
    IF c = Null
    THEN Null
    ELSE IF Val(c) < 0
         THEN Some([ToDouble(0 - Val(c), RateDen) EXCEPT !.neg = TRUE])
         ELSE Some(ToDouble(Val(c), RateDen))

\* what a dispatcher may have entered in the modal when Confirm is clicked:
\* no driver, an empty fare, a negative fare, a zero fare, and two valid
\* forms that differ in both fields
FormInputs ==
    { [selectedDriverId |-> "",   fareInput |-> <<"1">>],
      [selectedDriverId |-> "d1", fareInput |-> << >>],
      [selectedDriverId |-> "d1", fareInput |-> <<"-", "1">>],
      [selectedDriverId |-> "d1", fareInput |-> <<"0">>],
      [selectedDriverId |-> "d1", fareInput |-> <<"1">>],
      [selectedDriverId |-> "d2", fareInput |-> <<"2">>] }

\* ------------------------------------------------------------ the store
Columns == {"status", "driver_id", "agreed_fare", "platform_commission",
            "customer_verified_amount", "driver_verified_amount",
            "commission_paid", "commission_settled"}

\* variant: the function multiplies by 0.10 where the aggregator's fallback
\* multiplies by 0.12
calculate_trip_commission_TenPercent(agreed_fare) ==
    IF agreed_fare # Null
    THEN Some(Val(agreed_fare) * 10)
    ELSE Null

\* variant: a zero fare is treated like a missing one
calculate_trip_commission_ZeroIsNull(agreed_fare) ==
    IF agreed_fare # Null /\ Val(agreed_fare) # 0
    THEN Some(Val(agreed_fare) * RateNum)
    ELSE Null

\* variant: a missing fare yields a zero commission
calculate_trip_commission_NullIsZero(agreed_fare) ==
    IF agreed_fare # Null
    THEN Some(Val(agreed_fare) * RateNum)
    ELSE Some(0)

\* BEFORE INSERT OR UPDATE OF agreed_fare: calculate_trip_commission
calculate_trip_commission(agreed_fare) ==
    IF agreed_fare # Null
    THEN Some(Val(agreed_fare) * RateNum)
    ELSE Null

\* variant: the trigger is created BEFORE INSERT only
set_trip_commission_InsertOnly(new, cols, isInsert) ==
    IF isInsert
    THEN [new EXCEPT !.platform_commission = calculate_trip_commission(new.agreed_fare)]
    ELSE new

\* the trigger fires on every INSERT and on an UPDATE whose SET list names
\* agreed_fare
set_trip_commission(new, cols, isInsert) ==
    IF isInsert \/ "agreed_fare" \in cols
    THEN [new EXCEPT !.platform_commission = calculate_trip_commission(new.agreed_fare)]
    ELSE new

AuditEvent(id, action, old_data, new_data) ==
    [table_name |-> "trips", record_id |-> id, action |-> action,
     old_data |-> old_data, new_data |-> new_data]

\* variant: the mismatch payload carries the two amounts the wrong way round
verify_trip_amounts_SwappedPayload(id, old, new) ==
    IF /\ new.customer_verified_amount # Null
       /\ new.driver_verified_amount # Null
       /\ \/ new.customer_verified_amount # old.customer_verified_amount
          \/ new.driver_verified_amount # old.driver_verified_amount
    THEN IF new.customer_verified_amount # new.driver_verified_amount
         THEN << AuditEvent(id, "VERIFICATION_MISMATCH", Null,
                    Some([customer_amount |-> Val(new.driver_verified_amount),
                          driver_amount |-> Val(new.customer_verified_amount)])) >>
         ELSE << AuditEvent(id, "VERIFICATION_MATCH", Null, Null) >>
    ELSE << >>

\* variant: the check runs whenever both amounts exist, changed or not
verify_trip_amounts_NoChangeGuard(id, old, new) ==
    IF /\ new.customer_verified_amount # Null
       /\ new.driver_verified_amount # Null
    THEN IF new.customer_verified_amount # new.driver_verified_amount
         THEN << AuditEvent(id, "VERIFICATION_MISMATCH", Null,
                    Some([customer_amount |-> Val(new.customer_verified_amount),
                          driver_amount |-> Val(new.driver_verified_amount)])) >>
         ELSE << AuditEvent(id, "VERIFICATION_MATCH", Null, Null) >>
    ELSE << >>

\* AFTER UPDATE OF customer_verified_amount, driver_verified_amount
verify_trip_amounts(id, old, new) ==
    IF /\ new.customer_verified_amount # Null
       /\ new.driver_verified_amount # Null
       /\ \/ new.customer_verified_amount # old.customer_verified_amount
          \/ new.driver_verified_amount # old.driver_verified_amount
    THEN IF new.customer_verified_amount # new.driver_verified_amount
         THEN << AuditEvent(id, "VERIFICATION_MISMATCH", Null,
                    Some([customer_amount |-> Val(new.customer_verified_amount),
                          driver_amount |-> Val(new.driver_verified_amount)])) >>
         ELSE << AuditEvent(id, "VERIFICATION_MATCH", Null, Null) >>
    ELSE << >>

check_verification_amounts(id, old, new, cols) ==
    IF cols \cap {"customer_verified_amount", "driver_verified_amount"} # {}
    THEN verify_trip_amounts(id, old, new)
    ELSE << >>

\* variant: the event records the new status on both sides
log_trip_status_change_NewOnBothSides(id, old, new) ==
    IF new.status # old.status
    THEN << AuditEvent(id, "STATUS_UPDATE",
                       Some([status |-> new.status]),
                       Some([status |-> new.status])) >>
    ELSE << >>

\* variant: the function logs without comparing the two statuses
log_trip_status_change_NoDistinctCheck(id, old, new) ==
    << AuditEvent(id, "STATUS_UPDATE",
                  Some([status |-> old.status]),
                  Some([status |-> new.status])) >>

\* AFTER UPDATE OF status
log_trip_status_change(id, old, new) ==
    IF new.status # old.status
    THEN << AuditEvent(id, "STATUS_UPDATE",
                       Some([status |-> old.status]),
                       Some([status |-> new.status])) >>
    ELSE << >>

\* variant: only a change to a later status is logged
track_trip_status_OnlyForward(id, old, new, cols) ==
    IF "status" \in cols /\ Rank(new.status) > Rank(old.status)
    THEN log_trip_status_change(id, old, new)
    ELSE << >>

track_trip_status(id, old, new, cols) ==
    IF "status" \in cols
    THEN log_trip_status_change(id, old, new)
    ELSE << >>

\* variant: the commission is derived from the row before the update
UpdatedRow_CommissionFromOldRow(old, patch) ==
    LET set == [c \in Columns |-> IF c \in DOMAIN patch THEN patch[c] ELSE old[c]]
    IN  IF "agreed_fare" \in DOMAIN patch
        THEN [set EXCEPT !.platform_commission =
                            calculate_trip_commission(old.agreed_fare)]
        ELSE set

\* variant: an update leaves an agreed_fare that is already set as it is
UpdatedRow_KeepsSetFare(old, patch) ==
    set_trip_commission(
        [c \in Columns |->
            IF c \in DOMAIN patch /\ ~(c = "agreed_fare" /\ old.agreed_fare # Null)
            THEN patch[c]
            ELSE old[c]],
        DOMAIN patch, FALSE)

\* variant: an update of the status clears commission_settled
UpdatedRow_StatusResetsSettled(old, patch) ==
    LET new == set_trip_commission(
                  [c \in Columns |-> IF c \in DOMAIN patch THEN patch[c] ELSE old[c]],
                  DOMAIN patch, FALSE)
    IN  IF "status" \in DOMAIN patch
        THEN [new EXCEPT !.commission_settled = FALSE]
        ELSE new

\* the row an UPDATE ... SET patch leaves, BEFORE trigger included
UpdatedRow(old, patch) ==
    set_trip_commission(
        [c \in Columns |-> IF c \in DOMAIN patch THEN patch[c] ELSE old[c]],
        DOMAIN patch, FALSE)

\* the audit events the AFTER UPDATE triggers of one row append, in the
\* order PostgreSQL fires them (by trigger name)
RowEvents(id, old, patch) ==
    LET new == UpdatedRow(old, patch)
    IN  check_verification_amounts(id, old, new, DOMAIN patch)
        \o track_trip_status(id, old, new, DOMAIN patch)

\* the row an INSERT stores: column defaults, then the BEFORE INSERT trigger
InsertedRow(values) ==
    LET defaults == [status |-> "Pending", driver_id |-> Null,
                     agreed_fare |-> Null, platform_commission |-> Null,
                     customer_verified_amount |-> Null,
                     driver_verified_amount |-> Null,
                     commission_paid |-> FALSE, commission_settled |-> FALSE]
    IN  set_trip_commission(
            [c \in Columns |-> IF c \in DOMAIN values THEN values[c] ELSE defaults[c]],
            DOMAIN values, TRUE)

\* ------------------------------------------- the reconciliation aggregator
Pages == {"P", "Q"}

\* a row as the reconciliation query returns it: the trip's columns and the
\* joined driver, which is null when driver_id is
UnsettledTrip(id, row) ==
    [id |-> id, driver_id |-> row.driver_id, agreed_fare |-> row.agreed_fare,
     platform_commission |-> row.platform_commission, driver |-> row.driver_id]

\* a ?? b
Nullish(a, b) == IF a # Null THEN Val(a) ELSE b

\* the fallback rate 0.12, in units of 1/RateDen
FallbackRateNum == 12

NewStatement(driver) ==
    [driver |-> driver, trips |-> << >>, totalFare |-> 0, totalCommission |-> 0]

\* variant: every trip with a driver opens a statement of its own
AddTrip_OneStatementPerTrip(map, trip) ==
    IF trip.driver_id = Null \/ trip.driver = Null
    THEN map
    ELSE Append(map,
            [driver |-> Val(trip.driver), trips |-> << trip >>,
             totalFare |-> Nullish(trip.agreed_fare, 0),
             totalCommission |->
                Nullish(trip.platform_commission,
                        Nullish(trip.agreed_fare, 0) * FallbackRateNum)])

\* variant: platform_commission || fare * 0.12, so that a commission of 0
\* counts as not set
AddTrip_FalsyFallback(map, trip) ==
    IF trip.driver_id = Null \/ trip.driver = Null
    THEN map
    ELSE LET driverId == Val(trip.driver_id)
             has == \E i \in 1..Len(map) : map[i].driver = driverId
             set == IF has THEN map ELSE Append(map, NewStatement(Val(trip.driver)))
             commission ==
                IF trip.platform_commission # Null /\ Val(trip.platform_commission) # 0
                THEN Val(trip.platform_commission)
                ELSE Nullish(trip.agreed_fare, 0) * FallbackRateNum
         IN  [i \in 1..Len(set) |->
                IF set[i].driver = driverId
                THEN [set[i] EXCEPT
                        !.trips = Append(@, trip),
                        !.totalFare = @ + Nullish(trip.agreed_fare, 0),
                        !.totalCommission = @ + commission]
                ELSE set[i]]

\* one pass of the loop of groupByDriver; the Map is the sequence of its
\* values in insertion order
AddTrip(map, trip) ==
    IF trip.driver_id = Null \/ trip.driver = Null
    THEN map
    ELSE LET driverId == Val(trip.driver_id)
             has == \E i \in 1..Len(map) : map[i].driver = driverId
             set == IF has THEN map ELSE Append(map, NewStatement(Val(trip.driver)))
         IN  [i \in 1..Len(set) |->
                IF set[i].driver = driverId
                THEN [set[i] EXCEPT
                        !.trips = Append(@, trip),
                        !.totalFare = @ + Nullish(trip.agreed_fare, 0),
                        !.totalCommission = @ +
                            Nullish(trip.platform_commission,
                                    Nullish(trip.agreed_fare, 0) * FallbackRateNum)]
                ELSE set[i]]

RECURSIVE GroupLoop(_, _, _)
GroupLoop(map, trips, i) ==
    IF i > Len(trips)
    THEN map
    ELSE GroupLoop(AddTrip(map, trips[i]), trips, i + 1)

\* variant: the comparator is a.totalCommission - b.totalCommission
InsertStatement_Ascending(sorted, s) ==
    LET k == Cardinality({i \in 1..Len(sorted) :
                            \A j \in 1..i :
                                sorted[j].totalCommission <= s.totalCommission})
    IN  SubSeq(sorted, 1, k) \o << s >> \o SubSeq(sorted, k + 1, Len(sorted))

\* one insertion of the stable sort by (a, b) => b.totalCommission -
\* a.totalCommission: s goes behind every statement that does not sort after it
InsertStatement(sorted, s) ==
    LET k == Cardinality({i \in 1..Len(sorted) :
                            \A j \in 1..i :
                                sorted[j].totalCommission >= s.totalCommission})
    IN  SubSeq(sorted, 1, k) \o << s >> \o SubSeq(sorted, k + 1, Len(sorted))

RECURSIVE SortStatements(_, _, _)
SortStatements(sorted, list, i) ==
    IF i > Len(list)
    THEN sorted
    ELSE SortStatements(InsertStatement(sorted, list[i]), list, i + 1)

groupByDriver(trips) ==
    SortStatements(<< >>, GroupLoop(<< >>, trips, 1), 1)

\* ------------------------------------------------------------------ state
VARIABLES
    trips,          \* the trips table: row of trip id i at index i
    audit_logs,     \* the audit_logs table, in insertion order
    loading,        \* DashboardPage.loading, per dashboard
    dashTrips,      \* DashboardPage.trips, per dashboard: trip id -> local copy
    drivers,        \* DashboardPage.drivers, per dashboard: the ids fetched
    selectedTrip,   \* DashboardPage.selectedTrip, per dashboard: Null or Some(id)
    assignCall,     \* the assign update in flight, per dashboard
    advancing,      \* TripCard.advancing, per dashboard and trip
    advanceCall,    \* the advance update in flight, per dashboard and trip
    statements,     \* ReconciliationPage.statements, per page
    reconLoading,   \* ReconciliationPage.loading, per page
    fetchError,     \* ReconciliationPage.fetchError, per page: Null or Some(message)
    toast,          \* ReconciliationPage.toast, per page: Null or Some(message)
    settleCall,     \* the settle update in flight, per page and driver card
    groupInput,     \* the trips handed to groupByDriver
    groupOutput,    \* Null, or Some(the statements groupByDriver returned)
    submitError,    \* MatchmakingModal.submitError, per dashboard: Null or Some(message)
    customers,      \* the customers table: phone_number of customer id i at index i
    tripCustomer,   \* trips.customer_id: the customer id of trip id i at index i
    newTrip,        \* NewTripModal.handleSubmit, per dashboard: where it stands
    advanceRequests, \* per dashboard and trip: advance updates sent and not answered
    settleRequests  \* per page and driver: settle updates sent and not answered

vars == <<trips, audit_logs, loading, dashTrips, drivers, selectedTrip,
          assignCall, advancing, advanceCall, statements, reconLoading,
          fetchError, toast, settleCall, groupInput, groupOutput, submitError,
          customers, tripCustomer, newTrip, advanceRequests, settleRequests>>

storeVars == <<trips, audit_logs>>
dashVars == <<loading, dashTrips, drivers, selectedTrip, assignCall, advancing,
              advanceCall, submitError>>
customerVars == <<customers, tripCustomer, newTrip>>
requestVars == <<advanceRequests, settleRequests>>
pageVars == <<statements, reconLoading, fetchError, toast, settleCall>>
groupVars == <<groupInput, groupOutput>>
reconVars == <<pageVars, groupVars>>

TripIds == 1..MaxTrips
StoredIds == 1..Len(trips)

NoCall == [sent |-> FALSE]

\* NewTripModal with no submission under way
Idle == [step |-> "idle"]

\* the fields of TripWithRelations a dashboard keeps of a row
LocalCopy(row) ==
    [status |-> row.status, driver_id |-> row.driver_id,
     agreed_fare |-> row.agreed_fare,
     platform_commission |-> CommissionNumber(row.platform_commission)]

NoTrips == [t \in {} |-> Null]

\* an empty store, every dashboard and every reconciliation page mounting
InitPrograms ==
    /\ trips = << >>
    /\ audit_logs = << >>
    /\ loading = [d \in Dashboards |-> TRUE]
    /\ dashTrips = [d \in Dashboards |-> NoTrips]
    /\ drivers = [d \in Dashboards |-> {}]
    /\ selectedTrip = [d \in Dashboards |-> Null]
    /\ assignCall = [d \in Dashboards |-> NoCall]
    /\ advancing = [d \in Dashboards |-> [t \in TripIds |-> FALSE]]
    /\ advanceCall = [d \in Dashboards |-> [t \in TripIds |-> NoCall]]
    /\ statements = [p \in Pages |-> << >>]
    /\ reconLoading = [p \in Pages |-> TRUE]
    /\ fetchError = [p \in Pages |-> Null]
    /\ toast = [p \in Pages |-> Null]
    /\ settleCall = [p \in Pages |-> [d \in Drivers |-> NoCall]]
    /\ submitError = [d \in Dashboards |-> Null]
    /\ customers = << >>
    /\ tripCustomer = << >>
    /\ newTrip = [d \in Dashboards |-> Idle]
    /\ advanceRequests = [d \in Dashboards |-> [t \in TripIds |-> 0]]
    /\ settleRequests = [p \in Pages |-> [d \in Drivers |-> 0]]

Init ==
    /\ InitPrograms
    /\ groupInput = << >>
    /\ groupOutput = Null

\* ---------------------------------------------------- statements executed
\* UPDATE trips SET patch WHERE id IN ids: every row of ids is rewritten and
\* its AFTER triggers append their events, row by row
RECURSIVE StatementEvents(_, _, _)
StatementEvents(rows, ids, patch) ==
    IF ids = {}
    THEN << >>
    ELSE LET i == CHOOSE x \in ids : \A y \in ids : x <= y
         IN  RowEvents(i, rows[i], patch)
             \o StatementEvents(rows, ids \ {i}, patch)

\* variant: a row whose check reports a mismatch is not written
ExecUpdate_MismatchBlocks(ids, patch) ==
    /\ Len(audit_logs) < MaxAudit
    /\ trips' = [i \in StoredIds |->
                    IF /\ i \in ids
                       /\ \A k \in 1..Len(RowEvents(i, trips[i], patch)) :
                            RowEvents(i, trips[i], patch)[k].action
                                # "VERIFICATION_MISMATCH"
                    THEN UpdatedRow(trips[i], patch)
                    ELSE trips[i]]
    /\ audit_logs' = audit_logs \o StatementEvents(trips, ids \cap StoredIds, patch)

\* variant: the events of a statement are put in front of the trail
ExecUpdate_NewestFirst(ids, patch) ==
    /\ Len(audit_logs) < MaxAudit
    /\ trips' = [i \in StoredIds |->
                    IF i \in ids THEN UpdatedRow(trips[i], patch) ELSE trips[i]]
    /\ audit_logs' = StatementEvents(trips, ids \cap StoredIds, patch) \o audit_logs

ExecUpdate(ids, patch) ==
    /\ Len(audit_logs) < MaxAudit
    /\ trips' = [i \in StoredIds |->
                    IF i \in ids THEN UpdatedRow(trips[i], patch) ELSE trips[i]]
    /\ audit_logs' = audit_logs \o StatementEvents(trips, ids \cap StoredIds, patch)

ExecInsert(values, max) ==
    /\ Len(trips) < max
    /\ trips' = Append(trips, InsertedRow(values))
    /\ UNCHANGED audit_logs

\* -------------------------------------------------------- the dashboard
\* useEffect -> fetchData: the one fetch of a dashboard, on mount
FetchData(d) ==
    /\ loading[d]
    /\ loading' = [loading EXCEPT ![d] = FALSE]
    /\ dashTrips' = [dashTrips EXCEPT ![d] =
                        [t \in StoredIds |-> LocalCopy(trips[t])]]
    /\ drivers' = [drivers EXCEPT ![d] = Drivers]
    /\ UNCHANGED <<storeVars, selectedTrip, assignCall, advancing, advanceCall>>
    /\ UNCHANGED reconVars
    /\ UNCHANGED <<submitError, customerVars>>
    /\ UNCHANGED requestVars

\* fetchData when the query fails: fetchError is set and trips stays as it is
FetchDataError(d) ==
    /\ loading[d]
    /\ loading' = [loading EXCEPT ![d] = FALSE]
    /\ UNCHANGED <<storeVars, dashTrips, drivers, selectedTrip, assignCall,
                   advancing, advanceCall>>
    /\ UNCHANGED reconVars
    /\ UNCHANGED <<submitError, customerVars>>
    /\ UNCHANGED requestVars

\* NewTripModal.handleSubmit, step 3, and handleTripCreated
NewTripSubmit(d) ==
    /\ ExecInsert([status |-> "Pending", driver_id |-> Null,
                   agreed_fare |-> Null, commission_paid |-> FALSE],
                  MaxTrips)
    /\ dashTrips' = [dashTrips EXCEPT ![d] =
                        [t \in DOMAIN dashTrips[d] \cup {Len(trips')} |->
                            IF t = Len(trips')
                            THEN LocalCopy(trips'[t])
                            ELSE dashTrips[d][t]]]
    /\ UNCHANGED <<loading, drivers, selectedTrip, assignCall, advancing, advanceCall>>
    /\ UNCHANGED reconVars
    /\ UNCHANGED <<submitError, customerVars>>
    /\ UNCHANGED requestVars

submitting(d) == assignCall[d].sent

\* onCardClick of the Pending column: setSelectedTrip; the modal mounts
OpenModal(d, t) ==
    /\ ~loading[d]
    /\ selectedTrip[d] = Null
    /\ t \in DOMAIN dashTrips[d]
    /\ dashTrips[d][t].status = "Pending"
    /\ selectedTrip' = [selectedTrip EXCEPT ![d] = Some(t)]
    /\ UNCHANGED <<storeVars, loading, dashTrips, drivers, assignCall, advancing, advanceCall>>
    /\ UNCHANGED reconVars
    /\ submitError' = [submitError EXCEPT ![d] = Null]
    /\ UNCHANGED customerVars
    /\ UNCHANGED requestVars

\* onClose: setSelectedTrip(null); the close buttons are disabled while submitting
CloseModal(d) ==
    /\ selectedTrip[d] # Null
    /\ ~submitting(d)
    /\ selectedTrip' = [selectedTrip EXCEPT ![d] = Null]
    /\ UNCHANGED <<storeVars, loading, dashTrips, drivers, assignCall, advancing, advanceCall>>
    /\ UNCHANGED reconVars
    /\ submitError' = [submitError EXCEPT ![d] = Null]
    /\ UNCHANGED customerVars
    /\ UNCHANGED requestVars

\* drivers.find((d) => d.id === selectedDriverId) ?? null
selectedDriver(f, ds) ==
    IF f.selectedDriverId \in ds THEN Some(f.selectedDriverId) ELSE Null

parsedFare(f) == parseFloat(f.fareInput)

\* variant: a zero fare passes the check
canConfirm_AllowsZero(f, ds) ==
    /\ selectedDriver(f, ds) # Null
    /\ ~isNaN(parsedFare(f))
    /\ Val(parsedFare(f)) >= 0

\* variant: any number passes the fare check
canConfirm_AnyNumber(f, ds) ==
    /\ selectedDriver(f, ds) # Null
    /\ ~isNaN(parsedFare(f))

canConfirm(f, ds) ==
    /\ selectedDriver(f, ds) # Null
    /\ ~isNaN(parsedFare(f))
    /\ Val(parsedFare(f)) > 0

\* variant: the assign update leaves the status column out
HandleConfirm_NoStatus(d, f) ==
    /\ selectedTrip[d] # Null
    /\ ~submitting(d)
    /\ IF selectedDriver(f, drivers[d]) # Null /\ canConfirm(f, drivers[d])
       THEN /\ assignCall' = [assignCall EXCEPT ![d] =
                [sent |-> TRUE, id |-> Val(selectedTrip[d]),
                 patch |-> [driver_id |-> selectedDriver(f, drivers[d]),
                            agreed_fare |-> parsedFare(f)]]]
            /\ submitError' = [submitError EXCEPT ![d] = Null]
       ELSE UNCHANGED <<assignCall, submitError>>
    /\ UNCHANGED <<storeVars, loading, dashTrips, drivers, selectedTrip,
                   advancing, advanceCall>>
    /\ UNCHANGED reconVars
    /\ UNCHANGED customerVars
    /\ UNCHANGED requestVars

\* MatchmakingModal.handleConfirm up to the await inside
\* handleConfirmAssignment: the update is sent
HandleConfirm(d, f) ==
    /\ selectedTrip[d] # Null
    /\ ~submitting(d)
    /\ IF selectedDriver(f, drivers[d]) # Null /\ canConfirm(f, drivers[d])
       THEN /\ assignCall' = [assignCall EXCEPT ![d] =
                [sent |-> TRUE, id |-> Val(selectedTrip[d]),
                 patch |-> [driver_id |-> selectedDriver(f, drivers[d]),
                            agreed_fare |-> parsedFare(f),
                            status |-> "Confirmed"]]]
            /\ submitError' = [submitError EXCEPT ![d] = Null]
       ELSE UNCHANGED <<assignCall, submitError>>
    /\ UNCHANGED <<storeVars, loading, dashTrips, drivers, selectedTrip,
                   advancing, advanceCall>>
    /\ UNCHANGED reconVars
    /\ UNCHANGED customerVars
    /\ UNCHANGED requestVars

\* the store executes the assign update; handleConfirmAssignment resumes
\* with no error: optimistic update of the local copy, setSelectedTrip(null)
AssignResolve(d) ==
    /\ assignCall[d].sent
    /\ LET c == assignCall[d]
       IN  /\ ExecUpdate({c.id}, c.patch)
           /\ dashTrips' = [dashTrips EXCEPT ![d] =
                [t \in DOMAIN dashTrips[d] |->
                    IF t = c.id
                    THEN [dashTrips[d][t] EXCEPT
                            !.status = "Confirmed",
                            !.driver_id = c.patch.driver_id,
                            !.agreed_fare = c.patch.agreed_fare,
                            !.platform_commission =
                                Some(JsTimes(Val(c.patch.agreed_fare), Literal012))]
                    ELSE dashTrips[d][t]]]
    /\ selectedTrip' = [selectedTrip EXCEPT ![d] = Null]
    /\ assignCall' = [assignCall EXCEPT ![d] = NoCall]
    /\ UNCHANGED <<loading, drivers, advancing, advanceCall>>
    /\ UNCHANGED reconVars
    /\ submitError' = [submitError EXCEPT ![d] = Null]
    /\ UNCHANGED customerVars
    /\ UNCHANGED requestVars

\* variant: a failed assign closes the modal
AssignError_ClosesModal(d) ==
    /\ assignCall[d].sent
    /\ assignCall' = [assignCall EXCEPT ![d] = NoCall]
    /\ selectedTrip' = [selectedTrip EXCEPT ![d] = Null]
    /\ submitError' = [submitError EXCEPT ![d] = Null]
    /\ UNCHANGED <<storeVars, loading, dashTrips, drivers, advancing, advanceCall>>
    /\ UNCHANGED reconVars
    /\ UNCHANGED customerVars
    /\ UNCHANGED requestVars

\* the assign update fails: handleConfirmAssignment throws, handleConfirm
\* sets submitError and clears submitting; the modal stays open
AssignError(d) ==
    /\ assignCall[d].sent
    /\ assignCall' = [assignCall EXCEPT ![d] = NoCall]
    /\ UNCHANGED <<storeVars, loading, dashTrips, drivers, selectedTrip,
                   advancing, advanceCall>>
    /\ UNCHANGED reconVars
    /\ submitError' = [submitError EXCEPT ![d] = Some("error.message")]
    /\ UNCHANGED customerVars
    /\ UNCHANGED requestVars

\* variant: every card has an advance button and the handler takes the
\* status after the card's, whatever the card's status is
HandleAdvance_AnyStatus(d, t) ==
    /\ ~loading[d]
    /\ selectedTrip[d] = Null
    /\ t \in DOMAIN dashTrips[d]
    /\ LET trip == dashTrips[d][t]
           r == Rank(trip.status)
           next == STATUSES[IF r < Len(STATUSES) THEN r + 1 ELSE 1]
       IN  IF ~advancing[d][t]
           THEN /\ advancing' = [advancing EXCEPT ![d][t] = TRUE]
                /\ advanceCall' = [advanceCall EXCEPT ![d][t] =
                        [sent |-> TRUE, id |-> t, patch |-> [status |-> next]]]
                /\ advanceRequests' = [advanceRequests EXCEPT ![d][t] = @ + 1]
           ELSE UNCHANGED <<advancing, advanceCall, advanceRequests>>
    /\ UNCHANGED <<storeVars, loading, dashTrips, drivers, selectedTrip, assignCall>>
    /\ UNCHANGED reconVars
    /\ UNCHANGED <<submitError, customerVars>>
    /\ UNCHANGED settleRequests

\* variant: the handler does not look at advancing and the button is never
\* disabled
HandleAdvance_NoGuard(d, t) ==
    /\ ~loading[d]
    /\ selectedTrip[d] = Null
    /\ t \in DOMAIN dashTrips[d]
    /\ LET trip == dashTrips[d][t]
           onAdvance == trip.status \in {"Confirmed", "In Progress"}
       IN  IF onAdvance /\ HasAdvanceCfg(trip.status)
           THEN /\ advancing' = [advancing EXCEPT ![d][t] = TRUE]
                /\ advanceCall' = [advanceCall EXCEPT ![d][t] =
                        [sent |-> TRUE, id |-> t,
                         patch |-> [status |-> AdvanceNext(trip.status)]]]
                /\ advanceRequests' = [advanceRequests EXCEPT ![d][t] = @ + 1]
           ELSE UNCHANGED <<advancing, advanceCall, advanceRequests>>
    /\ UNCHANGED <<storeVars, loading, dashTrips, drivers, selectedTrip, assignCall>>
    /\ UNCHANGED reconVars
    /\ UNCHANGED <<submitError, customerVars>>
    /\ UNCHANGED settleRequests

\* TripCard.handleAdvance and handleAdvanceStatus up to its await; the cards
\* are rendered once loading is over and lie under the modal while it is open
HandleAdvance(d, t) ==
    /\ ~loading[d]
    /\ selectedTrip[d] = Null
    /\ t \in DOMAIN dashTrips[d]
    /\ LET trip == dashTrips[d][t]
           onAdvance == trip.status \in {"Confirmed", "In Progress"}
       IN  IF onAdvance /\ ~advancing[d][t] /\ HasAdvanceCfg(trip.status)
           THEN /\ advancing' = [advancing EXCEPT ![d][t] = TRUE]
                /\ advanceCall' = [advanceCall EXCEPT ![d][t] =
                        [sent |-> TRUE, id |-> t,
                         patch |-> [status |-> AdvanceNext(trip.status)]]]
                /\ advanceRequests' = [advanceRequests EXCEPT ![d][t] = @ + 1]
           ELSE UNCHANGED <<advancing, advanceCall, advanceRequests>>
    /\ UNCHANGED <<storeVars, loading, dashTrips, drivers, selectedTrip, assignCall>>
    /\ UNCHANGED reconVars
    /\ UNCHANGED <<submitError, customerVars>>
    /\ UNCHANGED settleRequests

\* the store executes the advance update; handleAdvanceStatus resumes with
\* no error and handleAdvance's finally clears advancing
AdvanceResolve(d, t) ==
    /\ advanceCall[d][t].sent
    /\ LET c == advanceCall[d][t]
       IN  /\ ExecUpdate({c.id}, c.patch)
           /\ dashTrips' = [dashTrips EXCEPT ![d] =
                [u \in DOMAIN dashTrips[d] |->
                    IF u = c.id
                    THEN [dashTrips[d][u] EXCEPT !.status = c.patch.status]
                    ELSE dashTrips[d][u]]]
    /\ advancing' = [advancing EXCEPT ![d][t] = FALSE]
    /\ advanceCall' = [advanceCall EXCEPT ![d][t] = NoCall]
    /\ UNCHANGED <<loading, drivers, selectedTrip, assignCall>>
    /\ UNCHANGED reconVars
    /\ UNCHANGED <<submitError, customerVars>>
    /\ advanceRequests' = [advanceRequests EXCEPT ![d][t] = @ - 1]
    /\ UNCHANGED settleRequests

\* the advance update fails: handleAdvanceStatus throws, finally clears
\* advancing
AdvanceError(d, t) ==
    /\ advanceCall[d][t].sent
    /\ advancing' = [advancing EXCEPT ![d][t] = FALSE]
    /\ advanceCall' = [advanceCall EXCEPT ![d][t] = NoCall]
    /\ UNCHANGED <<storeVars, loading, dashTrips, drivers, selectedTrip, assignCall>>
    /\ UNCHANGED reconVars
    /\ UNCHANGED <<submitError, customerVars>>
    /\ advanceRequests' = [advanceRequests EXCEPT ![d][t] = @ - 1]
    /\ UNCHANGED settleRequests

\* ------------------------------------------- statements sent to the store
\* INSERT INTO trips and UPDATE trips ... WHERE id = id as any client of the
\* store may send them: the triggers see nothing but the statement
SqlInsert(values, max) ==
    /\ ExecInsert(values, max)
    /\ UNCHANGED dashVars
    /\ UNCHANGED reconVars
    /\ UNCHANGED customerVars
    /\ UNCHANGED requestVars

SqlUpdate(id, patch) ==
    /\ id \in StoredIds
    /\ ExecUpdate({id}, patch)
    /\ UNCHANGED dashVars
    /\ UNCHANGED reconVars
    /\ UNCHANGED customerVars
    /\ UNCHANGED requestVars

NoColumns == [c \in {} |-> Null]

\* SET lists over agreed_fare and platform_commission
FareValues == {Null, Some(0), Some(1), Some(2)}
CommissionValues == {Null, Some(5)}
CommissionPatches ==
    {"agreed_fare" :> f : f \in FareValues}
    \cup {"platform_commission" :> c : c \in CommissionValues}
    \cup {("agreed_fare" :> f) @@ ("platform_commission" :> c) :
            f \in FareValues, c \in CommissionValues}

\* SET lists over the verified amounts, and one over an unrelated column
CustomerAmounts == {Null, Some(1), Some(2)}
DriverAmounts == {Null, Some(1), Some(2)}
VerificationPatches ==
    {"customer_verified_amount" :> a : a \in CustomerAmounts}
    \cup {"driver_verified_amount" :> a : a \in DriverAmounts}
    \cup {("customer_verified_amount" :> a) @@ ("driver_verified_amount" :> b) :
            a \in CustomerAmounts \ {Null}, b \in DriverAmounts \ {Null}}
    \cup {"commission_paid" :> TRUE}

\* ----------------------------------------------- the reconciliation page
\* variant: the query leaves out .eq('commission_settled', false)
UnsettledQuery_NoSettledFilter(rows) ==
    LET all == [i \in 1..Len(rows) |-> [id |-> i, row |-> rows[i]]]
        Match(r) == r.row.status = "Completed"
        sel == SelectSeq(all, Match)
    IN  [k \in 1..Len(sel) |-> UnsettledTrip(sel[k].id, sel[k].row)]

\* select ... .eq('status', 'Completed').eq('commission_settled', false)
\* .order('created_at'): the rows in the order they were inserted
UnsettledQuery(rows) ==
    LET all == [i \in 1..Len(rows) |-> [id |-> i, row |-> rows[i]]]
        Match(r) == r.row.status = "Completed" /\ r.row.commission_settled = FALSE
        sel == SelectSeq(all, Match)
    IN  [k \in 1..Len(sel) |-> UnsettledTrip(sel[k].id, sel[k].row)]

\* useEffect -> fetchData: the one fetch of a page, on mount
FetchUnsettled(p) ==
    /\ reconLoading[p]
    /\ statements' = [statements EXCEPT ![p] = groupByDriver(UnsettledQuery(trips))]
    /\ reconLoading' = [reconLoading EXCEPT ![p] = FALSE]
    /\ UNCHANGED <<storeVars, dashVars, fetchError, toast, settleCall, groupVars>>
    /\ UNCHANGED customerVars
    /\ UNCHANGED requestVars

\* fetchData when the query fails
FetchUnsettledError(p) ==
    /\ reconLoading[p]
    /\ fetchError' = [fetchError EXCEPT ![p] = Some("error.message")]
    /\ reconLoading' = [reconLoading EXCEPT ![p] = FALSE]
    /\ UNCHANGED <<storeVars, dashVars, statements, toast, settleCall, groupVars>>
    /\ UNCHANGED customerVars
    /\ UNCHANGED requestVars

\* DriverCard.settling of the card of driver drv
settling(p, drv) == settleCall[p][drv].sent

SettleErrorToast == "Error settling balance. Please try again."
SettledToast == "Balance settled successfully"

\* variant: the update also marks the commission as paid
SettlePatch_AlsoPaid == ("commission_settled" :> TRUE) @@ ("commission_paid" :> TRUE)

\* .update({ commission_settled: true })
SettlePatch == "commission_settled" :> TRUE

\* the ids of a statement's trips: statement.trips.map((t) => t.id)
TripIdsOf(statement) == [k \in 1..Len(statement.trips) |-> statement.trips[k].id]

SeqRange(q) == {q[k] : k \in 1..Len(q)}

\* DriverCard.handleSettle and ReconciliationPage.handleSettle up to its
\* await; the button is disabled while the card is settling
HandleSettle(p, drv) ==
    /\ ~reconLoading[p]
    /\ ~settling(p, drv)
    /\ \E i \in 1..Len(statements[p]) :
        /\ statements[p][i].driver = drv
        /\ settleCall' = [settleCall EXCEPT ![p][drv] =
                [sent |-> TRUE, driverId |-> drv,
                 tripIds |-> TripIdsOf(statements[p][i])]]
    /\ UNCHANGED <<storeVars, dashVars, statements, reconLoading, fetchError,
                   toast, groupVars>>
    /\ UNCHANGED customerVars
    /\ settleRequests' = [settleRequests EXCEPT ![p][drv] = @ + 1]
    /\ UNCHANGED advanceRequests

\* what handleSettle does with the page once the update has succeeded
SettledPage(p, c) ==
    LET Other(s) == s.driver # c.driverId
    IN  /\ statements' = [statements EXCEPT ![p] = SelectSeq(statements[p], Other)]
        /\ toast' = [toast EXCEPT ![p] = Some(SettledToast)]

\* variant: the update settles every unsettled Completed trip the driver
\* has when it runs
SettleResolve_Requery(p, drv) ==
    /\ settleCall[p][drv].sent
    /\ LET c == settleCall[p][drv]
       IN  /\ ExecUpdate({t \in StoredIds :
                            /\ trips[t].driver_id = Some(c.driverId)
                            /\ trips[t].status = "Completed"
                            /\ ~trips[t].commission_settled},
                         SettlePatch)
           /\ SettledPage(p, c)
    /\ settleCall' = [settleCall EXCEPT ![p][drv] = NoCall]
    /\ UNCHANGED <<dashVars, reconLoading, fetchError, groupVars>>
    /\ UNCHANGED customerVars
    /\ settleRequests' = [settleRequests EXCEPT ![p][drv] = @ - 1]
    /\ UNCHANGED advanceRequests

\* variant: the update flips commission_settled on the listed trips
SettleResolve_Toggles(p, drv) ==
    /\ settleCall[p][drv].sent
    /\ LET c == settleCall[p][drv]
       IN  /\ trips' = [t \in StoredIds |->
                            IF t \in SeqRange(c.tripIds)
                            THEN [trips[t] EXCEPT !.commission_settled = ~@]
                            ELSE trips[t]]
           /\ UNCHANGED audit_logs
           /\ SettledPage(p, c)
    /\ settleCall' = [settleCall EXCEPT ![p][drv] = NoCall]
    /\ UNCHANGED <<dashVars, reconLoading, fetchError, groupVars>>
    /\ UNCHANGED customerVars
    /\ settleRequests' = [settleRequests EXCEPT ![p][drv] = @ - 1]
    /\ UNCHANGED advanceRequests

\* the store executes the settle update; handleSettle resumes with no error:
\* the driver's statement leaves the working set, the toast is shown, and
\* DriverCard.handleSettle's finally clears settling
SettleResolve(p, drv) ==
    /\ settleCall[p][drv].sent
    /\ LET c == settleCall[p][drv]
       IN  /\ ExecUpdate(SeqRange(c.tripIds), SettlePatch)
           /\ SettledPage(p, c)
    /\ settleCall' = [settleCall EXCEPT ![p][drv] = NoCall]
    /\ UNCHANGED <<dashVars, reconLoading, fetchError, groupVars>>
    /\ UNCHANGED customerVars
    /\ settleRequests' = [settleRequests EXCEPT ![p][drv] = @ - 1]
    /\ UNCHANGED advanceRequests

\* variant: the trips are written one by one and the write of the last one
\* fails
SettleError_Partial(p, drv) ==
    /\ settleCall[p][drv].sent
    /\ LET ids == settleCall[p][drv].tripIds
       IN  ExecUpdate({ids[k] : k \in 1..(Len(ids) - 1)}, SettlePatch)
    /\ toast' = [toast EXCEPT ![p] = Some(SettleErrorToast)]
    /\ settleCall' = [settleCall EXCEPT ![p][drv] = NoCall]
    /\ UNCHANGED <<dashVars, statements, reconLoading, fetchError, groupVars>>
    /\ UNCHANGED customerVars
    /\ settleRequests' = [settleRequests EXCEPT ![p][drv] = @ - 1]
    /\ UNCHANGED advanceRequests

\* the settle update fails: the statement is one UPDATE, so no row is
\* written; handleSettle shows the error toast and throws, finally clears
\* settling
SettleError(p, drv) ==
    /\ settleCall[p][drv].sent
    /\ toast' = [toast EXCEPT ![p] = Some(SettleErrorToast)]
    /\ settleCall' = [settleCall EXCEPT ![p][drv] = NoCall]
    /\ UNCHANGED <<storeVars, dashVars, statements, reconLoading, fetchError,
                   groupVars>>
    /\ UNCHANGED customerVars
    /\ settleRequests' = [settleRequests EXCEPT ![p][drv] = @ - 1]
    /\ UNCHANGED advanceRequests

\* showToast's timer: setToast(null)
ToastExpire(p) ==
    /\ toast[p] # Null
    /\ toast' = [toast EXCEPT ![p] = Null]
    /\ UNCHANGED <<storeVars, dashVars, statements, reconLoading, fetchError,
                   settleCall, groupVars>>
    /\ UNCHANGED customerVars
    /\ UNCHANGED requestVars

\* the rows of trips a dispatcher has assigned and started, as the store
\* receives them
FareOf(d) == IF d = "d1" THEN 1 ELSE 2
StartedTrips ==
    { [status |-> "In Progress", driver_id |-> Some(d),
       agreed_fare |-> Some(FareOf(d))] : d \in Drivers }

\* the update handleAdvanceStatus sends for a trip in progress
TripCompleted(t) ==
    /\ t \in StoredIds
    /\ trips[t].status = "In Progress"
    /\ SqlUpdate(t, [status |-> "Completed"])

\* --------------------------------------------------- groupByDriver applied
\* the trips a fetch may hand to groupByDriver: with and without a driver;
\* without a fare, with the commission the store derives, with a fare and no
\* commission, and with a commission of zero
DriverIds == {Null} \cup {Some(d) : d \in Drivers}
Amounts ==
    { [agreed_fare |-> Null,    platform_commission |-> Null],
      [agreed_fare |-> Some(1), platform_commission |-> calculate_trip_commission(Some(1))],
      [agreed_fare |-> Some(2), platform_commission |-> calculate_trip_commission(Some(2))],
      [agreed_fare |-> Some(1), platform_commission |-> Null],
      [agreed_fare |-> Some(2), platform_commission |-> Some(0)] }
TripShapes ==
    { [driver_id |-> d, agreed_fare |-> a.agreed_fare,
       platform_commission |-> a.platform_commission] :
        d \in DriverIds, a \in Amounts }

\* the trips (A, 10000), (A, 5000), (B, 20000), with the derived commission
\* and without a commission
ExampleRows(derive) ==
    LET Row(d, fare) ==
            [driver_id |-> Some(d), agreed_fare |-> Some(fare),
             platform_commission |->
                IF derive THEN calculate_trip_commission(Some(fare)) ELSE Null]
    IN  << Row("d1", 10000), Row("d1", 5000), Row("d2", 20000) >>

\* rows numbered in the order the query returns them
Fetched(rows) == [i \in 1..Len(rows) |-> UnsettledTrip(i, rows[i])]

TripLists ==
    { Fetched(rows) : rows \in UNION { [1..n -> TripShapes] : n \in 0..MaxLen } }
    \cup { Fetched(ExampleRows(TRUE)), Fetched(ExampleRows(FALSE)) }

InitAggregator ==
    /\ InitPrograms
    /\ groupInput \in TripLists
    /\ groupOutput = Null

BuildStatements ==
    /\ groupOutput = Null
    /\ groupOutput' = Some(groupByDriver(groupInput))
    /\ UNCHANGED <<storeVars, dashVars, pageVars, groupInput>>
    /\ UNCHANGED customerVars
    /\ UNCHANGED requestVars

\* ------------------------------------------- an audit insert that fails
\* The trigger functions INSERT INTO audit_logs inside the UPDATE they are
\* fired by and have no EXCEPTION block: when that INSERT raises, the whole
\* statement is rolled back and the client receives the error.
ExecUpdateAborted(ids, patch) ==
    /\ StatementEvents(trips, ids \cap StoredIds, patch) # << >>
    /\ UNCHANGED <<trips, audit_logs>>

\* the assign update is aborted by its audit insert: handleConfirmAssignment
\* throws on the error, handleConfirm sets submitError
AssignAuditFailure(d) ==
    /\ assignCall[d].sent
    /\ ExecUpdateAborted({assignCall[d].id}, assignCall[d].patch)
    /\ assignCall' = [assignCall EXCEPT ![d] = NoCall]
    /\ submitError' = [submitError EXCEPT ![d] = Some("error.message")]
    /\ UNCHANGED <<loading, dashTrips, drivers, selectedTrip, advancing, advanceCall>>
    /\ UNCHANGED reconVars
    /\ UNCHANGED customerVars
    /\ UNCHANGED requestVars

\* the advance update is aborted by its audit insert: handleAdvanceStatus
\* throws on the error, handleAdvance's finally clears advancing
AdvanceAuditFailure(d, t) ==
    /\ advanceCall[d][t].sent
    /\ ExecUpdateAborted({advanceCall[d][t].id}, advanceCall[d][t].patch)
    /\ advancing' = [advancing EXCEPT ![d][t] = FALSE]
    /\ advanceCall' = [advanceCall EXCEPT ![d][t] = NoCall]
    /\ UNCHANGED <<loading, dashTrips, drivers, selectedTrip, assignCall, submitError>>
    /\ UNCHANGED reconVars
    /\ UNCHANGED customerVars
    /\ advanceRequests' = [advanceRequests EXCEPT ![d][t] = @ - 1]
    /\ UNCHANGED settleRequests

\* ------------------------------------------------- NewTripModal.handleSubmit
\* The phone field's text, as characters.  String.prototype.trim removes the
\* white space at both ends.
IsSpace(c) == c = " "

RECURSIVE trimStart(_)
trimStart(s) ==
    IF s # << >> /\ IsSpace(Head(s)) THEN trimStart(Tail(s)) ELSE s

RECURSIVE trimEnd(_)
trimEnd(s) ==
    IF s # << >> /\ IsSpace(s[Len(s)])
    THEN trimEnd(SubSeq(s, 1, Len(s) - 1))
    ELSE s

trim(s) == trimEnd(trimStart(s))

\* what a dispatcher may have typed in the phone field: nothing, a blank,
\* two numbers, and the first number with a blank after or before it
PhoneInputs ==
    { << >>, <<" ">>, <<"7">>, <<"8">>, <<"7", " ">>, <<" ", "7">> }

\* canSubmit: the other required fields are filled in
canSubmit(phoneNumber) == trim(phoneNumber) # << >>

newTripSubmitting(d) == newTrip[d].step \in {"lookup", "customer", "trip"}

\* the ids of the customers whose phone_number equals phone
CustomersByPhone(phone) ==
    {i \in 1..Len(customers) : customers[i] = phone}

DuplicateKey == "duplicate key value violates unique constraint"

\* handleSubmit up to its first await: the lookup by phone number is sent
SubmitNewTrip(d, phoneNumber) ==
    /\ IF canSubmit(phoneNumber) /\ ~newTripSubmitting(d)
       THEN newTrip' = [newTrip EXCEPT ![d] =
                            [step |-> "lookup", phone |-> trim(phoneNumber)]]
       ELSE UNCHANGED newTrip
    /\ UNCHANGED <<storeVars, dashVars, reconVars, customers, tripCustomer>>
    /\ UNCHANGED requestVars

\* the store answers the lookup (.limit(1): any one of the rows found);
\* handleSubmit takes the id found and sends the trip insert, or sends the
\* customer insert when there is none
LookupResolve(d) ==
    /\ newTrip[d].step = "lookup"
    /\ LET existing == CustomersByPhone(newTrip[d].phone)
       IN  IF existing # {}
           THEN \E id \in existing :
                    newTrip' = [newTrip EXCEPT ![d] =
                        [step |-> "trip", phone |-> newTrip[d].phone,
                         customerId |-> id]]
           ELSE newTrip' = [newTrip EXCEPT ![d] =
                        [step |-> "customer", phone |-> newTrip[d].phone]]
    /\ UNCHANGED <<storeVars, dashVars, reconVars, customers, tripCustomer>>
    /\ UNCHANGED requestVars

\* variant: the customers table has no UNIQUE constraint on phone_number
CustomerInsertResolve_NoUnique(d) ==
    /\ newTrip[d].step = "customer"
    /\ customers' = Append(customers, newTrip[d].phone)
    /\ newTrip' = [newTrip EXCEPT ![d] =
                    [step |-> "trip", phone |-> newTrip[d].phone,
                     customerId |-> Len(customers')]]
    /\ UNCHANGED <<storeVars, dashVars, reconVars, tripCustomer>>
    /\ UNCHANGED requestVars

\* the store executes the customer insert: phone_number is UNIQUE, so the
\* insert of a number that is stored already fails and handleSubmit throws
\* its message; otherwise handleSubmit sends the trip insert with the new id
CustomerInsertResolve(d) ==
    /\ newTrip[d].step = "customer"
    /\ IF CustomersByPhone(newTrip[d].phone) # {}
       THEN /\ newTrip' = [newTrip EXCEPT ![d] =
                    [step |-> "failed", phone |-> newTrip[d].phone,
                     submitError |-> DuplicateKey]]
            /\ UNCHANGED customers
       ELSE /\ customers' = Append(customers, newTrip[d].phone)
            /\ newTrip' = [newTrip EXCEPT ![d] =
                    [step |-> "trip", phone |-> newTrip[d].phone,
                     customerId |-> Len(customers')]]
    /\ UNCHANGED <<storeVars, dashVars, reconVars, tripCustomer>>
    /\ UNCHANGED requestVars

\* the store executes the trip insert (fk_trip_customer holds: customers are
\* never deleted); handleTripCreated puts the trip in the local copy and
\* closes the modal
TripInsertResolve(d) ==
    /\ newTrip[d].step = "trip"
    /\ newTrip[d].customerId \in 1..Len(customers)
    /\ ExecInsert([status |-> "Pending", driver_id |-> Null,
                   agreed_fare |-> Null, commission_paid |-> FALSE],
                  MaxRows)
    /\ tripCustomer' = Append(tripCustomer, newTrip[d].customerId)
    /\ dashTrips' = [dashTrips EXCEPT ![d] =
                        [t \in DOMAIN dashTrips[d] \cup {Len(trips')} |->
                            IF t = Len(trips')
                            THEN LocalCopy(trips'[t])
                            ELSE dashTrips[d][t]]]
    /\ newTrip' = [newTrip EXCEPT ![d] = Idle]
    /\ UNCHANGED <<loading, drivers, selectedTrip, assignCall, advancing,
                   advanceCall, submitError, reconVars, customers>>
    /\ UNCHANGED requestVars

\* the statement in flight fails: handleSubmit throws the error's message,
\* the catch block sets submitError and clears submitting
NewTripError(d) ==
    /\ newTripSubmitting(d)
    /\ newTrip' = [newTrip EXCEPT ![d] =
                    [step |-> "failed", phone |-> newTrip[d].phone,
                     submitError |-> "error.message"]]
    /\ UNCHANGED <<storeVars, dashVars, reconVars, customers, tripCustomer>>
    /\ UNCHANGED requestVars

Next ==
    \/ \E d \in Dashboards : FetchData(d)
    \/ \E d \in Dashboards : FetchDataError(d)
    \/ \E d \in Dashboards : NewTripSubmit(d)
    \/ \E d \in Dashboards, t \in TripIds : OpenModal(d, t)
    \/ \E d \in Dashboards : CloseModal(d)
    \/ \E d \in Dashboards, f \in FormInputs : HandleConfirm(d, f)
    \/ \E d \in Dashboards : AssignResolve(d)
    \/ \E d \in Dashboards : AssignError(d)
    \/ \E d \in Dashboards, t \in TripIds : HandleAdvance(d, t)
    \/ \E d \in Dashboards, t \in TripIds : AdvanceResolve(d, t)
    \/ \E d \in Dashboards, t \in TripIds : AdvanceError(d, t)

Spec == Init /\ [][Next]_vars

\* the dashboards over a store whose audit inserts may fail
NextAuditFailure ==
    \/ Next
    \/ \E d \in Dashboards : AssignAuditFailure(d)
    \/ \E d \in Dashboards, t \in TripIds : AdvanceAuditFailure(d, t)

SpecAuditFailure == Init /\ [][NextAuditFailure]_vars

\* the store under INSERT and UPDATE statements that set agreed_fare and
\* platform_commission
NextCommission ==
    \/ \E v \in CommissionPatches \cup {NoColumns} : SqlInsert(v, MaxRows)
    \/ \E id \in 1..MaxRows, p \in CommissionPatches : SqlUpdate(id, p)

SpecCommission == Init /\ [][NextCommission]_vars

\* the store under UPDATE statements that set the verified amounts
NextVerification ==
    \/ SqlInsert(NoColumns, MaxTrips)
    \/ \E id \in TripIds, p \in VerificationPatches : SqlUpdate(id, p)

SpecVerification == Init /\ [][NextVerification]_vars

\* SET lists that fire one or the other of the two audit triggers
AuditPatches ==
    {"status" :> s : s \in TripStatus}
    \cup {"customer_verified_amount" :> a : a \in {Some(1), Some(2)}}
    \cup {"driver_verified_amount" :> a : a \in {Some(1), Some(2)}}

\* the store under UPDATE statements that fire the audit triggers
NextAudit ==
    \/ SqlInsert(NoColumns, MaxTrips)
    \/ \E id \in TripIds, p \in AuditPatches : SqlUpdate(id, p)

SpecAudit == Init /\ [][NextAudit]_vars

\* the reconciliation pages over a store in which trips are started and
\* completed
NextReconciliation ==
    \/ \E v \in StartedTrips : SqlInsert(v, MaxRows)
    \/ \E t \in 1..MaxRows : TripCompleted(t)
    \/ \E p \in Pages : FetchUnsettled(p)
    \/ \E p \in Pages : FetchUnsettledError(p)
    \/ \E p \in Pages, drv \in Drivers : HandleSettle(p, drv)
    \/ \E p \in Pages, drv \in Drivers : SettleResolve(p, drv)
    \/ \E p \in Pages, drv \in Drivers : SettleError(p, drv)
    \/ \E p \in Pages : ToastExpire(p)

SpecReconciliation == Init /\ [][NextReconciliation]_vars

\* the rows of trips a dispatcher has created and assigned, as the store
\* receives them
AssignedTrips ==
    { [status |-> "Confirmed", driver_id |-> Some(d),
       agreed_fare |-> Some(FareOf(d))] : d \in Drivers }

\* dashboards that advance assigned trips and reconciliation pages that
\* settle them, over one store
NextOperations ==
    \/ \E v \in AssignedTrips : SqlInsert(v, MaxTrips)
    \/ \E d \in Dashboards : FetchData(d)
    \/ \E d \in Dashboards, t \in TripIds : HandleAdvance(d, t)
    \/ \E d \in Dashboards, t \in TripIds : AdvanceResolve(d, t)
    \/ \E p \in Pages : FetchUnsettled(p)
    \/ \E p \in Pages, drv \in Drivers : HandleSettle(p, drv)
    \/ \E p \in Pages, drv \in Drivers : SettleResolve(p, drv)

SpecOperations == Init /\ [][NextOperations]_vars

\* the dashboards' dispatchers booking trips
NextCustomers ==
    \/ \E d \in Dashboards, ph \in PhoneInputs : SubmitNewTrip(d, ph)
    \/ \E d \in Dashboards : LookupResolve(d)
    \/ \E d \in Dashboards : CustomerInsertResolve(d)
    \/ \E d \in Dashboards : TripInsertResolve(d)
    \/ \E d \in Dashboards : NewTripError(d)

SpecCustomers == Init /\ [][NextCustomers]_vars

\* the forms of a dispatcher who also enters a fare of 11
FormInputsSingle ==
    FormInputs \cup {[selectedDriverId |-> "d2", fareInput |-> <<"1", "1">>]}

\* one dashboard, and nothing else that writes to the store
NextSingle ==
    \/ FetchData("A")
    \/ FetchDataError("A")
    \/ \E ph \in PhoneInputs : SubmitNewTrip("A", ph)
    \/ LookupResolve("A")
    \/ CustomerInsertResolve("A")
    \/ TripInsertResolve("A")
    \/ NewTripError("A")
    \/ \E t \in TripIds : OpenModal("A", t)
    \/ CloseModal("A")
    \/ \E f \in FormInputsSingle : HandleConfirm("A", f)
    \/ AssignResolve("A")
    \/ AssignError("A")
    \/ \E t \in TripIds : HandleAdvance("A", t)
    \/ \E t \in TripIds : AdvanceResolve("A", t)
    \/ \E t \in TripIds : AdvanceError("A", t)

SpecSingle == Init /\ [][NextSingle]_vars

\* dashboards that advance the trips assigned to one driver and pages that
\* settle them, with updates that may fail
NextRequests ==
    \/ SqlInsert([status |-> "Confirmed", driver_id |-> Some("d1"),
                  agreed_fare |-> Some(FareOf("d1"))], MaxTrips)
    \/ \E d \in Dashboards : FetchData(d)
    \/ \E d \in Dashboards, t \in TripIds : HandleAdvance(d, t)
    \/ \E d \in Dashboards, t \in TripIds : AdvanceResolve(d, t)
    \/ \E d \in Dashboards, t \in TripIds : AdvanceError(d, t)
    \/ \E p \in Pages : FetchUnsettled(p)
    \/ \E p \in Pages, drv \in Drivers : HandleSettle(p, drv)
    \/ \E p \in Pages, drv \in Drivers : SettleResolve(p, drv)
    \/ \E p \in Pages, drv \in Drivers : SettleError(p, drv)

SpecRequests == Init /\ [][NextRequests]_vars

\* groupByDriver applied to each list of trips
NextAggregator == BuildStatements

SpecAggregator == InitAggregator /\ [][NextAggregator]_vars

\* ------------------------------------------------------------ properties
\* the audit events a step appends
Appended == SubSeq(audit_logs', Len(audit_logs) + 1, Len(audit_logs'))

EventsOf(events, id, actions) ==
    LET Keep(e) == e.record_id = id /\ e.action \in actions
    IN  SelectSeq(events, Keep)

\* C1: the stored status of a trip never moves backward in the order
\* Pending < Confirmed < In Progress < Completed, whatever the dashboards do
C1_StatusNeverMovesBackward ==
    [][\A t \in StoredIds :
          /\ Rank(trips'[t].status) >= Rank(trips[t].status)
          /\ trips[t].status = "Completed" => trips'[t].status = "Completed"]_vars

\* C2: every change of a stored status goes to the immediate successor
C2_StatusChangesByOneStep ==
    [][\A t \in StoredIds :
          trips'[t].status # trips[t].status
            => Rank(trips'[t].status) = Rank(trips[t].status) + 1]_vars

\* C3: an advance requested on a trip that the dashboard holds as Pending or
\* Completed sends no update and changes neither the store, nor the
\* dashboard's trips, nor the audit trail
C3_AdvanceRejected ==
    [][\A d \in Dashboards, t \in TripIds :
          (/\ t \in DOMAIN dashTrips[d]
           /\ dashTrips[d][t].status \in {"Pending", "Completed"}
           /\ HandleAdvance(d, t))
            => UNCHANGED <<trips, audit_logs, dashTrips, advanceCall, advancing>>]_vars

C3_Witness ==
    \E d \in Dashboards : \E t \in DOMAIN dashTrips[d] :
        /\ dashTrips[d][t].status = "Completed"
        /\ trips[t].status = "Completed"
        /\ ~advanceCall[d][t].sent
        /\ selectedTrip[d] = Null

\* a form with no driver, or whose fare is empty, negative or zero
InvalidForm(f) ==
    \/ f.selectedDriverId = ""
    \/ f.fareInput \in { << >>, <<"-", "1">>, <<"0">> }

\* C4: a Confirm click on a form with no driver or with a fare that is zero,
\* negative or not a number sends no update: the store is unchanged
C4_InvalidAssignRejected ==
    [][\A d \in Dashboards, f \in FormInputs :
          (InvalidForm(f) /\ HandleConfirm(d, f))
            => UNCHANGED <<trips, audit_logs, assignCall, dashTrips>>]_vars

C4_Witness ==
    \E d \in Dashboards :
        /\ selectedTrip[d] # Null
        /\ ~assignCall[d].sent
        /\ drivers[d] = Drivers
        /\ trips[Val(selectedTrip[d])].status = "Pending"
        /\ trips[Val(selectedTrip[d])].driver_id = Null
        /\ trips[Val(selectedTrip[d])].agreed_fare = Null
        /\ trips[Val(selectedTrip[d])].platform_commission = Null

\* the four fields an assign sets
Assigned(row) ==
    <<row.status, row.driver_id, row.agreed_fare, row.platform_commission>>

\* C5: the store executes an assign in one step that sets status, driver_id,
\* agreed_fare and platform_commission = 0.12 * agreed_fare together; no
\* step changes driver_id, agreed_fare or platform_commission otherwise
C5_AssignAtomic ==
    [][/\ \A d \in Dashboards :
            AssignResolve(d) =>
                LET c == assignCall[d]
                IN  Assigned(trips'[c.id]) =
                        << "Confirmed", c.patch.driver_id, c.patch.agreed_fare,
                           Some(12 * Val(c.patch.agreed_fare)) >>
       /\ \A t \in StoredIds :
            Assigned(trips'[t]) # Assigned(trips[t]) =>
                \/ /\ trips'[t].driver_id = trips[t].driver_id
                   /\ trips'[t].agreed_fare = trips[t].agreed_fare
                   /\ trips'[t].platform_commission = trips[t].platform_commission
                \/ \E d \in Dashboards :
                    /\ assignCall[d].sent
                    /\ assignCall[d].id = t
                    /\ Val(assignCall[d].patch.agreed_fare) > 0
                    /\ Assigned(trips'[t]) =
                         << "Confirmed", assignCall[d].patch.driver_id,
                            assignCall[d].patch.agreed_fare,
                            Some(12 * Val(assignCall[d].patch.agreed_fare)) >>]_vars

C5_Witness ==
    \E t \in StoredIds :
        Assigned(trips[t]) = << "Confirmed", Some("d2"), Some(2), Some(24) >>

\* C6: in every state of the store under the dispatchers' actions, a row's
\* platform_commission is null exactly when its agreed_fare is null and is
\* 0.12 * agreed_fare otherwise
C6_CommissionDerived ==
    \A t \in StoredIds :
        \/ trips[t].agreed_fare = Null /\ trips[t].platform_commission = Null
        \/ /\ trips[t].agreed_fare # Null
           /\ trips[t].platform_commission # Null
           /\ Val(trips[t].platform_commission) = 12 * Val(trips[t].agreed_fare)

C6_Witness ==
    \E t \in StoredIds :
        /\ trips[t].agreed_fare = Some(1)
        /\ trips[t].platform_commission = Some(12)
        /\ trips[t].status = "In Progress"

\* C7: an update that leaves agreed_fare as it was never leaves a row whose
\* platform_commission differs from 0.12 * agreed_fare
C7_CommissionNeverOverridden ==
    [][\A t \in StoredIds :
          trips'[t].agreed_fare = trips[t].agreed_fare =>
              \/ /\ trips'[t].agreed_fare = Null
                 /\ trips'[t].platform_commission = Null
              \/ /\ trips'[t].agreed_fare # Null
                 /\ trips'[t].platform_commission
                        = Some(12 * Val(trips'[t].agreed_fare))]_vars

\* C8: the commission the store derives on insert and whenever agreed_fare
\* changes is null for a null fare and 0.12 * fare for every fare >= 0, zero
\* included
C8_DeriveCommission ==
    [][\A t \in 1..Len(trips') :
          (t > Len(trips) \/ trips'[t].agreed_fare # trips[t].agreed_fare) =>
              /\ trips'[t].agreed_fare = Null
                    => trips'[t].platform_commission = Null
              /\ (trips'[t].agreed_fare # Null /\ Val(trips'[t].agreed_fare) >= 0)
                    => trips'[t].platform_commission
                            = Some(12 * Val(trips'[t].agreed_fare))]_vars

C8_Witness ==
    \E t \in StoredIds :
        /\ trips[t].agreed_fare = Some(0)
        /\ trips[t].platform_commission = Some(0)

\* C9: a step that changes a trip's stored status appends exactly one
\* STATUS_UPDATE event of that trip, with the status before the write as
\* old_data and the status after it as new_data
C9_StatusChangeLogged ==
    [][\A t \in StoredIds :
          trips'[t].status # trips[t].status =>
              /\ SubSeq(audit_logs', 1, Len(audit_logs)) = audit_logs
              /\ LET es == EventsOf(Appended, t, {"STATUS_UPDATE"})
                 IN  /\ Len(es) = 1
                     /\ es[1].old_data = Some([status |-> trips[t].status])
                     /\ es[1].new_data = Some([status |-> trips'[t].status])]_vars

C9_Witness ==
    \E i \in 1..Len(audit_logs) :
        /\ audit_logs[i].action = "STATUS_UPDATE"
        /\ audit_logs[i].old_data = Some([status |-> "Confirmed"])
        /\ audit_logs[i].new_data = Some([status |-> "In Progress"])
        /\ trips[audit_logs[i].record_id].status = "In Progress"

\* C10: an update that leaves both verified amounts non-null and changed at
\* least one of them appends exactly one verification event of the trip:
\* VERIFICATION_MATCH when the amounts are equal, VERIFICATION_MISMATCH with
\* both amounts as given when they differ
C10_VerificationOutcomeLogged ==
    [][\A t \in StoredIds :
          LET o == trips[t]
              n == trips'[t]
              es == EventsOf(Appended, t,
                             {"VERIFICATION_MATCH", "VERIFICATION_MISMATCH"})
          IN  (/\ n.customer_verified_amount # Null
               /\ n.driver_verified_amount # Null
               /\ \/ n.customer_verified_amount # o.customer_verified_amount
                  \/ n.driver_verified_amount # o.driver_verified_amount)
                => /\ Len(es) = 1
                   /\ IF n.customer_verified_amount = n.driver_verified_amount
                      THEN es[1].action = "VERIFICATION_MATCH"
                      ELSE /\ es[1].action = "VERIFICATION_MISMATCH"
                           /\ es[1].new_data =
                                Some([customer_amount |-> Val(n.customer_verified_amount),
                                      driver_amount |-> Val(n.driver_verified_amount)])]_vars

C10_Witness ==
    /\ \E i \in 1..Len(audit_logs) :
        /\ audit_logs[i].action = "VERIFICATION_MISMATCH"
        /\ audit_logs[i].new_data = Some([customer_amount |-> 2, driver_amount |-> 1])
    /\ \E j \in 1..Len(audit_logs) : audit_logs[j].action = "VERIFICATION_MATCH"

VerificationActions == {"VERIFICATION_MATCH", "VERIFICATION_MISMATCH"}

\* C11: an update after which either verified amount of a trip is null, or
\* that leaves both verified amounts of the trip as they were (the same
\* values rewritten, or another column written), appends no verification
\* event of that trip
C11_NoVerificationEvent ==
    [][\A t \in StoredIds :
          LET o == trips[t]
              n == trips'[t]
          IN  (\/ n.customer_verified_amount = Null
               \/ n.driver_verified_amount = Null
               \/ /\ n.customer_verified_amount = o.customer_verified_amount
                  /\ n.driver_verified_amount = o.driver_verified_amount)
                => EventsOf(Appended, t, VerificationActions) = << >>]_vars

C11_Witness ==
    \E t \in StoredIds :
        /\ trips[t].customer_verified_amount = Some(1)
        /\ trips[t].driver_verified_amount = Some(1)
        /\ trips[t].commission_paid
        /\ Len(EventsOf(audit_logs, t, VerificationActions)) = 1

\* C12: an update whose check reports a match or a mismatch is applied as
\* written: the row holds the written values, every other column and every
\* other row is as before, and the step appends the events of the check and
\* nothing else; no update of the verified amounts changes status,
\* driver_id, agreed_fare, platform_commission or commission_settled, and
\* the audit trail is only appended to
C12_VerificationObservational ==
    [][/\ SubSeq(audit_logs', 1, Len(audit_logs)) = audit_logs
       /\ \A t \in StoredIds :
            \A c \in {"status", "driver_id", "agreed_fare",
                       "platform_commission", "commission_settled"} :
                trips'[t][c] = trips[t][c]
       /\ Appended # << >> =>
            \A id \in StoredIds, p \in VerificationPatches :
                SqlUpdate(id, p) =>
                    /\ Len(trips') = Len(trips)
                    /\ \A c \in Columns :
                          trips'[id][c] =
                              IF c \in DOMAIN p THEN p[c] ELSE trips[id][c]
                    /\ \A u \in StoredIds \ {id} : trips'[u] = trips[u]
                    /\ \A i \in 1..Len(Appended) :
                          /\ Appended[i].action \in VerificationActions
                          /\ Appended[i].record_id = id]_vars

C12_Witness ==
    \E t \in StoredIds :
        /\ trips[t].customer_verified_amount = Some(1)
        /\ trips[t].driver_verified_amount = Some(2)
        /\ \E i \in 1..Len(audit_logs) :
            /\ audit_logs[i].record_id = t
            /\ audit_logs[i].action = "VERIFICATION_MISMATCH"
            /\ audit_logs[i].new_data = Some([customer_amount |-> 1, driver_amount |-> 2])

\* the ids a settle call in flight lists
Listed(p, drv) == SeqRange(settleCall[p][drv].tripIds)

\* the trips a page shows for a driver
Shown(sts, drv) ==
    {t \in TripIds \cup 1..MaxRows :
        \E i \in 1..Len(sts) :
            sts[i].driver = drv /\ t \in SeqRange(TripIdsOf(sts[i]))}

\* C13: the settle update leaves every listed trip with
\* commission_settled = true and no other column changed, and leaves every
\* other trip exactly as it was
C13_SettleExactlyListed ==
    [][\A p \in Pages, drv \in Drivers :
          SettleResolve(p, drv) =>
              /\ Len(trips') = Len(trips)
              /\ \A t \in StoredIds :
                    trips'[t] = IF t \in Listed(p, drv)
                                THEN [trips[t] EXCEPT !.commission_settled = TRUE]
                                ELSE trips[t]]_vars

C13_Witness ==
    \E p \in Pages :
        /\ Len(trips) = 2
        /\ trips[1].commission_settled /\ trips[1].driver_id = Some("d1")
        /\ trips[2].status = "Completed" /\ ~trips[2].commission_settled
        /\ trips[2].driver_id = Some("d2")
        /\ toast[p] = Some(SettledToast)
        /\ Shown(statements[p], "d1") = {}
        /\ Shown(statements[p], "d2") = {2}

\* C14: a settle leaves unsettled every Completed trip of the driver that
\* is not in the list the page sent (a trip completed after the page's
\* fetch is not in it), and a fetch shows every unsettled Completed trip in
\* the statement of its driver
C14_LateTripNotSettled ==
    [][/\ \A p \in Pages, drv \in Drivers :
            SettleResolve(p, drv) =>
                \A t \in StoredIds \ Listed(p, drv) :
                    (/\ trips[t].driver_id = Some(drv)
                     /\ trips[t].status = "Completed"
                     /\ ~trips[t].commission_settled)
                        => /\ trips'[t].status = "Completed"
                           /\ ~trips'[t].commission_settled
       /\ \A p \in Pages :
            FetchUnsettled(p) =>
                \A t \in StoredIds :
                    (/\ trips[t].driver_id # Null
                     /\ trips[t].status = "Completed"
                     /\ ~trips[t].commission_settled)
                        => t \in Shown(statements'[p], Val(trips[t].driver_id))]_vars

C14_Witness ==
    \E p, q \in Pages :
        /\ Len(trips) = 2
        /\ trips[1].driver_id = Some("d1") /\ trips[1].commission_settled
        /\ trips[2].driver_id = Some("d1") /\ trips[2].status = "Completed"
        /\ ~trips[2].commission_settled
        /\ ~reconLoading[p] /\ statements[p] = << >>
        /\ toast[p] = Some(SettledToast)
        /\ Shown(statements[q], "d1") = {2}

\* C15: a settle whose update fails writes no row, leaves the page's
\* statements as they were and shows the error message; and every settle,
\* failed or not, leaves either all the listed trips settled or the store
\* as it was
C15_SettleFailure ==
    [][\A p \in Pages, drv \in Drivers :
          /\ SettleError(p, drv) =>
                /\ UNCHANGED <<trips, audit_logs>>
                /\ statements'[p] = statements[p]
                /\ toast'[p] = Some(SettleErrorToast)
          /\ (settleCall[p][drv].sent /\ ~settleCall'[p][drv].sent) =>
                \/ \A t \in Listed(p, drv) : trips'[t].commission_settled
                \/ UNCHANGED trips]_vars

C15_Witness ==
    \E p \in Pages :
        /\ toast[p] = Some(SettleErrorToast)
        /\ Shown(statements[p], "d1") = {1, 2}
        /\ ~settling(p, "d1")
        /\ ~trips[1].commission_settled
        /\ ~trips[2].commission_settled

\* C16: a settle whose listed trips are all settled already can succeed,
\* and when it does the store is left exactly as it was
C16_SettleIdempotent ==
    /\ [](\A p \in Pages, drv \in Drivers :
            (/\ settleCall[p][drv].sent
             /\ \A t \in Listed(p, drv) : trips[t].commission_settled)
                => ENABLED SettleResolve(p, drv))
    /\ [][\A p \in Pages, drv \in Drivers :
            (/\ SettleResolve(p, drv)
             /\ \A t \in Listed(p, drv) : trips[t].commission_settled)
                => UNCHANGED <<trips, audit_logs>>]_vars

C16_Witness ==
    /\ Len(trips) = 1
    /\ trips[1].commission_settled
    /\ \A p \in Pages :
        /\ ~reconLoading[p]
        /\ statements[p] = << >>
        /\ toast[p] = Some(SettledToast)

\* C17: a fetch builds statements of trips that are Completed and not
\* settled in the store, so none holds a trip settled before; a successful
\* settle removes the statement of its driver from the page and leaves the
\* page's other statements, and the other pages, as they were
C17_StatementsOfUnsettledCompleted ==
    [][/\ \A p \in Pages :
            FetchUnsettled(p) =>
                \A i \in 1..Len(statements'[p]) :
                    \A t \in SeqRange(TripIdsOf(statements'[p][i])) :
                        /\ trips[t].status = "Completed"
                        /\ ~trips[t].commission_settled
       /\ \A p \in Pages, drv \in Drivers :
            SettleResolve(p, drv) =>
                LET Other(s) == s.driver # drv
                IN  /\ statements'[p] = SelectSeq(statements[p], Other)
                    /\ \A q \in Pages \ {p} : statements'[q] = statements[q]]_vars

C17_Witness ==
    \E p, q \in Pages :
        /\ p # q
        /\ Len(trips) = 2
        /\ trips[1].driver_id = Some("d2") /\ trips[1].status = "Completed"
        /\ ~trips[1].commission_settled
        /\ trips[2].driver_id = Some("d1") /\ trips[2].commission_settled
        /\ toast[p] = Some(SettledToast)
        /\ Shown(statements[p], "d1") = {} /\ Shown(statements[p], "d2") = {1}
        /\ ~reconLoading[q] /\ toast[q] = Null /\ fetchError[q] = Null
        /\ Shown(statements[q], "d1") = {} /\ Shown(statements[q], "d2") = {1}

\* the places of the trips in a list of statements
Positions(out) ==
    UNION { { <<k, j>> : j \in 1..Len(out[k].trips) } : k \in 1..Len(out) }

RECURSIVE SumSeq(_)
SumSeq(q) == IF q = << >> THEN 0 ELSE Head(q) + SumSeq(Tail(q))

\* C18: the statements groupByDriver returns are one per driver_id of the
\* input, none of them empty; a trip with a driver is in the statement of
\* its driver and nowhere else, and a trip without a driver is in none
C18_GroupedByDriver ==
    groupOutput # Null =>
        LET out == Val(groupOutput)
            withDriver == {i \in 1..Len(groupInput) : groupInput[i].driver_id # Null}
            driverIds == {Val(groupInput[i].driver_id) : i \in withDriver}
        IN  /\ {out[k].driver : k \in 1..Len(out)} = driverIds
            /\ Len(out) = Cardinality(driverIds)
            /\ \A k \in 1..Len(out) : out[k].trips # << >>
            /\ \A i \in withDriver :
                    LET at == {pos \in Positions(out) :
                                out[pos[1]].trips[pos[2]].id = groupInput[i].id}
                    IN  /\ Cardinality(at) = 1
                        /\ \A pos \in at :
                            /\ out[pos[1]].driver = Val(groupInput[i].driver_id)
                            /\ out[pos[1]].trips[pos[2]] = groupInput[i]
            /\ \A pos \in Positions(out) :
                    \E i \in withDriver : out[pos[1]].trips[pos[2]] = groupInput[i]

C18_Witness ==
    /\ groupOutput # Null
    /\ Len(groupInput) = 3
    /\ groupInput[1].driver_id = Some("d2")
    /\ groupInput[2].driver_id = Null
    /\ groupInput[3].driver_id = Some("d2")
    /\ Len(Val(groupOutput)) = 1
    /\ TripIdsOf(Val(groupOutput)[1]) = <<1, 3>>

\* C19: in every statement totalFare is the sum of the agreed_fare of its
\* trips, null counted as 0, and totalCommission is the sum of their
\* platform_commission where it is set and of 0.12 * agreed_fare where it is
\* not; (A, 10000), (A, 5000), (B, 20000) give A 15000 / 1800 and B 20000 /
\* 2400 (commissions in units of 1/100)
C19_Totals ==
    groupOutput # Null =>
        LET out == Val(groupOutput)
            Fare(t) == IF t.agreed_fare = Null THEN 0 ELSE Val(t.agreed_fare)
            Commission(t) == IF t.platform_commission # Null
                             THEN Val(t.platform_commission)
                             ELSE 12 * Fare(t)
            Totals(drv) == {<<out[k].totalFare, out[k].totalCommission>> :
                                k \in {j \in 1..Len(out) : out[j].driver = drv}}
        IN  /\ \A k \in 1..Len(out) :
                LET ts == out[k].trips
                IN  /\ out[k].totalFare =
                            SumSeq([j \in 1..Len(ts) |-> Fare(ts[j])])
                    /\ out[k].totalCommission =
                            SumSeq([j \in 1..Len(ts) |-> Commission(ts[j])])
            /\ groupInput \in {Fetched(ExampleRows(TRUE)), Fetched(ExampleRows(FALSE))}
                => /\ Len(out) = 2
                   /\ Totals("d1") = {<<15000, 180000>>}
                   /\ Totals("d2") = {<<20000, 240000>>}

C19_Witness ==
    /\ groupInput = Fetched(ExampleRows(FALSE))
    /\ groupOutput # Null
    /\ \E k \in 1..Len(Val(groupOutput)) :
        /\ Val(groupOutput)[k].driver = "d1"
        /\ Val(groupOutput)[k].totalFare = 15000
        /\ Val(groupOutput)[k].totalCommission = 180000

\* C20: of every two adjacent statements groupByDriver returns, the earlier
\* has a totalCommission greater than or equal to the later's
C20_SortedByCommission ==
    groupOutput # Null =>
        LET out == Val(groupOutput)
        IN  \A k \in 1..(Len(out) - 1) :
                out[k].totalCommission >= out[k + 1].totalCommission

C20_Witness ==
    /\ groupInput = Fetched(ExampleRows(TRUE))
    /\ groupOutput # Null
    /\ Len(Val(groupOutput)) = 2
    /\ Val(groupOutput)[1].driver = "d2"
    /\ Val(groupOutput)[2].driver = "d1"
    /\ Val(groupOutput)[1].totalCommission > Val(groupOutput)[2].totalCommission

\* ------------------------------------------------------------------- C21
\* C21: whatever a step adds to the trips table is a Pending row whose
\* driver_id, agreed_fare and platform_commission are null, and no step of
\* a dashboard (create, assign, advance) takes a row away: every id that
\* was stored is still stored.
C21_CreatedPendingNeverRemoved ==
    [][/\ Len(trips') >= Len(trips)
       /\ \A t \in 1..Len(trips') :
            t > Len(trips) =>
                /\ trips'[t].status = "Pending"
                /\ trips'[t].driver_id = Null
                /\ trips'[t].agreed_fare = Null
                /\ trips'[t].platform_commission = Null]_vars

\* a trip that dashboard d created (d holds it without ever having fetched)
\* has been assigned and advanced to Completed and is still stored
C21_Witness ==
    \E d \in Dashboards :
        /\ loading[d]
        /\ 1 \in DOMAIN dashTrips[d]
        /\ dashTrips[d][1].status = "Pending"
        /\ Len(trips) = 1
        /\ trips[1].status = "Completed"

\* ------------------------------------------------------------------- C22
\* C22: every trip whose stored status is Pending has a null agreed_fare
\* and a null driver_id.
C22_PendingUnassigned ==
    \A t \in StoredIds :
        trips[t].status = "Pending" =>
            /\ trips[t].agreed_fare = Null
            /\ trips[t].driver_id = Null

\* a stored trip is Pending and unassigned after an assign for it failed
\* and while another dashboard's assign for it is in flight
C22_Witness ==
    \E t \in StoredIds, d, e \in Dashboards :
        /\ trips[t].status = "Pending"
        /\ trips[t].driver_id = Null
        /\ selectedTrip[d] = Some(t)
        /\ submitError[d] # Null
        /\ assignCall[e].sent
        /\ assignCall[e].id = t

\* ------------------------------------------------------------------- C23
\* C23: every trip whose stored status is Completed has a driver_id that
\* is not null and an agreed_fare that is not null and greater than zero.
C23_CompletedAssigned ==
    \A t \in StoredIds :
        trips[t].status = "Completed" =>
            /\ trips[t].driver_id # Null
            /\ trips[t].agreed_fare # Null
            /\ Val(trips[t].agreed_fare) > 0

\* a trip was assigned and advanced twice: it is stored Completed and the
\* three status changes are in the audit trail
C23_Witness ==
    \E t \in StoredIds, d \in Dashboards :
        /\ trips[t].status = "Completed"
        /\ t \in DOMAIN dashTrips[d]
        /\ dashTrips[d][t].status = "Completed"
        /\ trips[t].driver_id = dashTrips[d][t].driver_id
        /\ trips[t].agreed_fare = dashTrips[d][t].agreed_fare
        /\ Len(audit_logs) = 3

\* ------------------------------------------------------------------- C24
\* the assigns of other dashboards for the same trip, with another driver
\* and another fare, that are in flight together with dashboard d's
Rivals(d) ==
    {e \in Dashboards \ {d} :
        /\ assignCall[e].sent
        /\ assignCall[e].id = assignCall[d].id
        /\ assignCall[e].patch.driver_id # assignCall[d].patch.driver_id
        /\ assignCall[e].patch.agreed_fare # assignCall[d].patch.agreed_fare}

\* C24: when two dashboards assign different (driver, fare) pairs to the same
\* trip at the same time, the store executes the two updates one after the
\* other, and each leaves the row with status Confirmed and with driver_id,
\* agreed_fare and platform_commission all of that one assign: nothing of
\* the rival's assign, executed before or still in flight, is in the row.
C24_ConcurrentAssignNoMix ==
    [][\A d \in Dashboards :
        AssignResolve(d) =>
            LET c == assignCall[d]
                row == trips'[c.id]
            IN  (Rivals(d) # {} \/ trips[c.id].driver_id # Null) =>
                    /\ row.status = "Confirmed"
                    /\ row.driver_id = c.patch.driver_id
                    /\ row.agreed_fare = c.patch.agreed_fare
                    /\ row.platform_commission
                         = Some(12 * Val(c.patch.agreed_fare))
                    /\ \A e \in Rivals(d) :
                        /\ assignCall'[e] = assignCall[e]
                        /\ row.driver_id # assignCall[e].patch.driver_id
                        /\ row.agreed_fare # assignCall[e].patch.agreed_fare
                        /\ row.platform_commission
                             # Some(Val(assignCall[e].patch.agreed_fare) * RateNum)
                    /\ trips[c.id].driver_id \notin {Null, c.patch.driver_id} =>
                        /\ row.driver_id # trips[c.id].driver_id
                        /\ row.agreed_fare # trips[c.id].agreed_fare
                        /\ row.platform_commission # trips[c.id].platform_commission]_vars

\* both dashboards have assigned the same trip, with different drivers and
\* fares; the stored row is the one or the other assign, whole
C24_Witness ==
    \E t \in StoredIds :
        /\ t \in DOMAIN dashTrips["A"] \cap DOMAIN dashTrips["B"]
        /\ dashTrips["A"][t].driver_id # Null
        /\ dashTrips["B"][t].driver_id # Null
        /\ dashTrips["A"][t].driver_id # dashTrips["B"][t].driver_id
        /\ dashTrips["A"][t].agreed_fare # dashTrips["B"][t].agreed_fare
        /\ trips[t].status = "Confirmed"
        /\ \E d \in Dashboards :
            /\ trips[t].driver_id = dashTrips[d][t].driver_id
            /\ trips[t].agreed_fare = dashTrips[d][t].agreed_fare
            /\ CommissionNumber(trips[t].platform_commission)
                    = dashTrips[d][t].platform_commission

\* ------------------------------------------------------------------- C25
\* C25: a failure to write the audit event of an update never fails the
\* update: the row is written as the update says and the dashboard that
\* sent it sees no error.
C25_AuditFailureKeepsUpdate ==
    [][/\ \A d \in Dashboards :
            AssignAuditFailure(d) =>
                /\ trips'[assignCall[d].id]
                     = UpdatedRow(trips[assignCall[d].id], assignCall[d].patch)
                /\ submitError'[d] = Null
       /\ \A d \in Dashboards, t \in TripIds :
            AdvanceAuditFailure(d, t) =>
                trips'[advanceCall[d][t].id]
                    = UpdatedRow(trips[advanceCall[d][t].id], advanceCall[d][t].patch)]_vars

\* ------------------------------------------------------------------- C26
\* C26: the audit trail only grows at its end: the trail before a step is
\* a prefix of the trail after it (and so of the trail in every later
\* state), and every event's action is STATUS_UPDATE, VERIFICATION_MATCH or
\* VERIFICATION_MISMATCH.
C26_AuditAppendOnly ==
    [][/\ Len(audit_logs') >= Len(audit_logs)
       /\ SubSeq(audit_logs', 1, Len(audit_logs)) = audit_logs
       /\ \A k \in 1..Len(audit_logs') :
            audit_logs'[k].action
                \in {"STATUS_UPDATE", "VERIFICATION_MATCH", "VERIFICATION_MISMATCH"}]_vars

\* the trail holds an event of each of the three kinds
C26_Witness ==
    \A a \in {"STATUS_UPDATE", "VERIFICATION_MATCH", "VERIFICATION_MISMATCH"} :
        \E k \in 1..Len(audit_logs) : audit_logs[k].action = a

\* ------------------------------------------------------------------- C28
\* C28: when the write of an assign or of an advance fails, the handler
\* passes the error on and sends nothing again, and the dashboard's local
\* copy of the trips is left as it was (as is the store); after a failed
\* assign the trip is still selected, so the modal stays open, and the
\* modal shows the error.
C28_FailedWriteLeavesLocalCopy ==
    [][/\ \A d \in Dashboards :
            AssignError(d) =>
                /\ dashTrips' = dashTrips
                /\ UNCHANGED <<trips, audit_logs>>
                /\ ~assignCall'[d].sent
                /\ selectedTrip[d] # Null
                /\ selectedTrip'[d] = selectedTrip[d]
                /\ submitError'[d] # Null
       /\ \A d \in Dashboards, t \in TripIds :
            AdvanceError(d, t) =>
                /\ dashTrips' = dashTrips
                /\ UNCHANGED <<trips, audit_logs>>
                /\ ~advanceCall'[d][t].sent
                /\ ~advancing'[d][t]]_vars

\* an assign has failed: the modal is open on the trip and shows the error,
\* nothing is in flight, and the local copy and the stored row are Pending
C28_Witness ==
    \E d \in Dashboards, t \in StoredIds :
        /\ selectedTrip[d] = Some(t)
        /\ submitError[d] # Null
        /\ ~submitting(d)
        /\ dashTrips[d][t].status = "Pending"
        /\ dashTrips[d][t].driver_id = Null
        /\ trips[t].status = "Pending"

\* ------------------------------------------------------------------- C30
\* C30: once a trip has been assigned, no step changes its driver_id, its
\* agreed_fare or its platform_commission.
C30_AssignWriteOnce ==
    [][\A t \in StoredIds :
        trips[t].driver_id # Null =>
            /\ trips'[t].driver_id = trips[t].driver_id
            /\ trips'[t].agreed_fare = trips[t].agreed_fare
            /\ trips'[t].platform_commission = trips[t].platform_commission]_vars

\* ------------------------------------------------------------------- C29
\* C29: every trip whose commission_settled is true has the stored status
\* Completed, whatever the dashboards and pages do and however old the
\* copies are they act on.
C29_SettledIsCompleted ==
    \A t \in StoredIds :
        trips[t].commission_settled => trips[t].status = "Completed"

\* ------------------------------------------------------------------- C27
\* C27: in every state no two customers have the same phone number and
\* every trip references one customer that exists; a step that stores a
\* trip references the customer whose phone number is the (trimmed) number
\* submitted, and a step stores at most one customer, and only one whose
\* phone number no customer had: a booking for a known number reuses its
\* customer, and of two concurrent bookings for a new number only one
\* inserts it.
C27_CustomerPerPhone ==
    /\ [](/\ \A i, j \in 1..Len(customers) :
                customers[i] = customers[j] => i = j
          /\ Len(tripCustomer) = Len(trips)
          /\ \A t \in 1..Len(tripCustomer) :
                tripCustomer[t] \in 1..Len(customers))
    /\ [][/\ Len(customers') <= Len(customers) + 1
          /\ SubSeq(customers', 1, Len(customers)) = customers
          /\ Len(customers') > Len(customers) =>
                CustomersByPhone(customers'[Len(customers')]) = {}
          /\ \A d \in Dashboards :
                (newTrip[d].step = "trip" /\ Len(trips') > Len(trips)
                    /\ newTrip'[d] = Idle) =>
                    /\ customers'[tripCustomer'[Len(trips')]] = newTrip[d].phone
                    /\ customers' = customers
                    /\ trim(newTrip[d].phone) = newTrip[d].phone]_vars

\* two dashboards booked for the same new number at the same time: one
\* customer insert was refused, the number is stored once, and two trips
\* reference that one customer, the second by reuse
C27_Witness ==
    \E d \in Dashboards :
        /\ newTrip[d].step = "failed"
        /\ newTrip[d].submitError = DuplicateKey
        /\ Cardinality(CustomersByPhone(newTrip[d].phone)) = 1
        /\ Len(trips) = 2
        /\ tripCustomer[1] = tripCustomer[2]
        /\ customers[tripCustomer[1]] = newTrip[d].phone

\* ------------------------------------------------------------------- C31
\* C31: a trip is stored with commission_settled false, and once a trip's
\* commission_settled is true no step (an advance from a dashboard with an
\* old copy included) makes it false again.
C31_SettledMonotone ==
    [][/\ \A t \in 1..Len(trips') :
            t > Len(trips) => ~trips'[t].commission_settled
       /\ \A t \in StoredIds :
            trips[t].commission_settled => trips'[t].commission_settled]_vars

\* a settled trip has been written again by a dashboard whose card still
\* showed Confirmed: it is stored In Progress and is still settled
C31_Witness ==
    \E t \in StoredIds, d \in Dashboards :
        /\ trips[t].commission_settled
        /\ trips[t].status = "In Progress"
        /\ dashTrips[d][t].status = "In Progress"
        /\ Len(audit_logs) = 3

\* ------------------------------------------------------------------- C32
\* C32: the STATUS_UPDATE events of a trip, in the order of the trail, form
\* a chain: the first goes from Pending, each later one goes from the
\* status the one before it went to, and the last goes to the trip's stored
\* status; a trip without such an event is stored Pending.
C32_StatusChain ==
    \A t \in StoredIds :
        LET es == EventsOf(audit_logs, t, {"STATUS_UPDATE"})
        IN  IF es = << >>
            THEN trips[t].status = "Pending"
            ELSE /\ es[1].old_data = Some([status |-> "Pending"])
                 /\ \A k \in 2..Len(es) : es[k].old_data = es[k - 1].new_data
                 /\ es[Len(es)].new_data = Some([status |-> trips[t].status])

\* a trip's chain has three links, the last of them a step back
C32_Witness ==
    \E t \in StoredIds :
        LET es == EventsOf(audit_logs, t, {"STATUS_UPDATE"})
        IN  /\ Len(es) = 3
            /\ es[2].new_data = Some([status |-> "In Progress"])
            /\ es[3].old_data = Some([status |-> "In Progress"])
            /\ es[3].new_data = Some([status |-> "Confirmed"])
            /\ trips[t].status = "Confirmed"

\* ------------------------------------------------------------------- C33
\* C33: an update that sets a trip's status to the status it has appends no
\* STATUS_UPDATE event of that trip (the second of two advances of the same
\* Confirmed trip to In Progress appends nothing), and no STATUS_UPDATE
\* event has an old status equal to its new status.
C33_NoEventForSameStatus ==
    /\ [](\A k \in 1..Len(audit_logs) :
            audit_logs[k].action = "STATUS_UPDATE" =>
                audit_logs[k].old_data # audit_logs[k].new_data)
    /\ [][/\ \A d \in Dashboards, t \in TripIds :
                (/\ AdvanceResolve(d, t)
                 /\ trips[advanceCall[d][t].id].status
                        = advanceCall[d][t].patch.status) =>
                    /\ audit_logs' = audit_logs
                    /\ dashTrips'[d][t].status = trips'[t].status
          /\ \A d \in Dashboards :
                (/\ AssignResolve(d)
                 /\ trips[assignCall[d].id].status = "Confirmed") =>
                    audit_logs' = audit_logs
          /\ \A t \in StoredIds :
                trips'[t].status = trips[t].status =>
                    EventsOf(Appended, t, {"STATUS_UPDATE"}) = << >>]_vars

\* both dashboards have advanced the same Confirmed trip to In Progress and
\* the trail holds one event from Confirmed to In Progress
C33_Witness ==
    \E t \in StoredIds :
        /\ trips[t].status = "In Progress"
        /\ \A d \in Dashboards :
            /\ t \in DOMAIN dashTrips[d]
            /\ dashTrips[d][t].status = "In Progress"
            /\ ~advancing[d][t]
        /\ Len(audit_logs) = 2
        /\ audit_logs[2].old_data = Some([status |-> "Confirmed"])
        /\ audit_logs[2].new_data = Some([status |-> "In Progress"])

\* ------------------------------------------------------------------- C34
\* C34: with one dashboard and no other writer, the dashboard's copy of
\* every trip it holds has the status, driver_id, agreed_fare and
\* platform_commission of the stored row (the platform_commission the
\* dashboard computes as agreedFare * 0.12 is the number the store's
\* commission reads as).
C34_LocalCopyAgrees ==
    \A t \in DOMAIN dashTrips["A"] :
        (~assignCall["A"].sent /\ (t \in TripIds => ~advanceCall["A"][t].sent)) =>
            dashTrips["A"][t] = LocalCopy(trips[t])

\* ------------------------------------------------------------------- C35
\* C35: a dashboard has at most one advance update of a trip sent and not
\* answered, and a page at most one settle update of a driver's statement;
\* the marker (advancing, settling) is set exactly while one is; a click on
\* the advance button while the marker is set sends nothing and writes
\* nothing; and the answer, success or failure, leaves the marker clear and
\* nothing in flight, so that the button sends again.
C35_OneRequestInFlight ==
    [][/\ \A d \in Dashboards, t \in TripIds :
            /\ advanceRequests'[d][t] <= 1
            /\ advancing'[d][t] <=> advanceRequests'[d][t] = 1
            /\ (advancing[d][t] /\ HandleAdvance(d, t)) =>
                    /\ advanceRequests' = advanceRequests
                    /\ UNCHANGED <<trips, audit_logs>>
            /\ (/\ advanceCall[d][t].sent
                /\ AdvanceResolve(d, t) \/ AdvanceError(d, t)) =>
                    /\ ~advancing'[d][t]
                    /\ advanceRequests'[d][t] = 0
       /\ \A p \in Pages, drv \in Drivers :
            /\ settleRequests'[p][drv] <= 1
            /\ settleCall'[p][drv].sent <=> settleRequests'[p][drv] = 1
            /\ (/\ settleCall[p][drv].sent
                /\ SettleResolve(p, drv) \/ SettleError(p, drv)) =>
                    /\ ~settleCall'[p][drv].sent
                    /\ settleRequests'[p][drv] = 0]_vars

\* after the failure of a settle and while the page shows its message, the
\* same card has a settle in flight again; and an advance is in flight on a
\* card that was advanced before
C35_Witness ==
    /\ \E p \in Pages, drv \in Drivers :
        /\ toast[p] = Some(SettleErrorToast)
        /\ settleRequests[p][drv] = 1
    /\ \E d \in Dashboards, t \in StoredIds :
        /\ advanceRequests[d][t] = 1
        /\ advancing[d][t]
        /\ dashTrips[d][t].status = "In Progress"


====
